---- MODULE Spec2Model ----
(***************************************************************************)
(* WeGig API: the external catalog proxy layer and the gig list.            *)
(*   src/src/ticketmaster.ts  - events catalog proxy (TTL cache, no        *)
(*                              limiter): searchTmEventsUk,                *)
(*                              getTmEventByIdUk, searchTmVenuesUk         *)
(*   src/unnamed/part_000     - artist catalog proxy (src/musicbrainz.ts): *)
(*                              TTL cache + one-request-per-second         *)
(*                              throttle: searchMbArtists                  *)
(*   src/src/index.ts         - the gig list: POST /gigs, PATCH and DELETE *)
(*                              /gigs/:id, and the startup load            *)
(*                              loadGigsFromDB (seed: src/unnamed/part_001)*)
(*                                                                         *)
(* Conventions.                                                            *)
(*  - A JavaScript string the code inspects character by character is a   *)
(*    sequence of one-character strings (<<"a", " ">>); a string the code  *)
(*    only compares (a cache key) is a TLA+ string, built with \o.         *)
(*  - An optional value (T | undefined) is a set: {} is undefined, {v} is  *)
(*    the value v.                                                         *)
(*  - A JSON / JavaScript value held in a cache or returned to a caller is *)
(*    a record; the scalars are [json |-> "null"], [json |-> "false"], ... *)
(*  - Time is Date.now() in milliseconds.                                  *)
(***************************************************************************)
EXTENDS Integers, Sequences, FiniteSets, TLC

VARIABLES
    now,            \* Date.now(), the wall clock
    ticks,          \* number of clock advances so far (bounds the model)
    started,        \* number of invocations so far (bounds the model)
    env,            \* process.env: TICKETMASTER_API_KEY, TICKETMASTER_COUNTRY_CODE
    tmCache,        \* ticketmaster.ts: const cache = new Map()
    mbCache,        \* part_000: const cache = new Map()
    lastRequestAt,  \* part_000: let lastRequestAt = 0
    calls,          \* the invocations in flight (asleep or awaiting fetch), in order of initiation
    last,           \* the invocation that took the latest step, as that step left it
    mbStarts,       \* start times of the two latest outbound MusicBrainz calls, oldest first
    lastSet,        \* SpecCache: the latest set on each key: [at, ttl, value] (history)
    lastGet,        \* SpecCache: the latest get: [key, at, result, set] (history)
    reqA, reqB,     \* two requests to one operation (cache key derivation)
    keyA, keyB,     \* their cache keys, once computed
    queryParams,    \* SpecQuery: the parameter record handed to buildQuery, as its entries in order
    queryString,    \* SpecQuery: the query string it returned
    gigs,           \* data/gigsData: export const gigs, the in-memory list
    dbStore,        \* what the persistence store holds under the key "gigs"
    loader,         \* loadGigsFromDB: its position, the list db.get gave it, the list it saves
    handlers,       \* the request handlers awaiting db.set, in order of arrival
    resp,           \* the latest response sent
    acked,          \* ids of the gigs POST /gigs has answered 201 for (history)
    removed,        \* ids of the gigs DELETE /gigs/:id has spliced out (history)
    gigReqs         \* number of gig requests so far (bounds the model)

vars == <<now, ticks, started, env, tmCache, mbCache, lastRequestAt, calls, last, mbStarts,
          lastSet, lastGet, reqA, reqB, keyA, keyB, queryParams, queryString,
          gigs, dbStore, loader, handlers, resp, acked, removed, gigReqs>>

proxyVars == <<env, tmCache, mbCache, lastRequestAt, calls, last, mbStarts>>
kvVars == <<lastSet, lastGet>>
keyVars == <<reqA, reqB, keyA, keyB>>
queryVars == <<queryParams, queryString>>
gigVars == <<gigs, dbStore, loader, handlers, resp, acked, removed, gigReqs>>

----------------------------------------------------------------------------
(* Bounds of the model *)

MaxCalls == 3       \* Spec: invocations per behaviour
MaxTicks == 2       \* Spec: clock advances per behaviour
MaxTmCalls == 2     \* SpecTm: invocations per behaviour
MaxTmTicks == 1     \* SpecTm: clock advances per behaviour
MaxMbCalls == 2     \* SpecMb: invocations per behaviour
MaxMbTicks == 3     \* SpecMb: clock advances per behaviour
MaxFailCalls == 3   \* SpecFail: invocations per behaviour
MaxFailTicks == 1   \* SpecFail: clock advances per behaviour
MaxCacheOps == 3    \* SpecCache: set and get operations per behaviour
MaxCacheTicks == 2  \* SpecCache: clock advances per behaviour
MaxGigReqs == 2     \* SpecGigs: gig requests per behaviour
MaxPostReqs == 1    \* SpecPost: POST /gigs requests per behaviour
MaxArtistCalls == 2 \* SpecArtist: invocations per behaviour
MaxArtistTicks == 1 \* SpecArtist: clock advances per behaviour

----------------------------------------------------------------------------
(* Program constants *)

THROTTLE_MS == 1000                         \* part_000:39
ONE_DAY_MS == 24 * 60 * 60 * 1000           \* part_000:21
TM_SEARCH_TTL_MS == 30 * 60 * 1000          \* ticketmaster.ts:95
TM_EVENT_TTL_MS == 24 * 60 * 60 * 1000      \* ticketmaster.ts:122
TM_VENUES_TTL_MS == 60 * 60 * 1000          \* ticketmaster.ts:175
TM_SEARCH_DEFAULT_SIZE == 20                \* ticketmaster.ts:65
TM_VENUES_DEFAULT_SIZE == 8                 \* ticketmaster.ts:138
MB_DEFAULT_LIMIT == 8                       \* part_000:66
MB_MAX_LIMIT == 25                          \* part_000:66
MB_MIN_LIMIT == 1                           \* part_000:66

----------------------------------------------------------------------------
(* Optional values *)

None == {}
Some(v) == {v}
IsSome(o) == o # {}
Get(o) == CHOOSE v \in o : TRUE
\* a ?? b
OrElse(o, d) == IF o = {} THEN d ELSE Get(o)

----------------------------------------------------------------------------
(* JavaScript values and truthiness *)

JsNull == [json |-> "null"]
JsFalse == [json |-> "false"]
JsZero == [json |-> "0"]
JsEmptyString == [json |-> "''"]
JsObject(n) == [json |-> "object", id |-> n]

\* if (cached): null, false, 0 and "" are falsy; every object is truthy
Truthy(v) == v \notin {JsNull, JsFalse, JsZero, JsEmptyString}

----------------------------------------------------------------------------
(* Strings *)

\* String.prototype.trim on a sequence of characters
RECURSIVE TrimLeft(_)
TrimLeft(s) == IF s # <<>> /\ Head(s) = " " THEN TrimLeft(Tail(s)) ELSE s

RECURSIVE TrimRight(_)
TrimRight(s) ==
    IF s # <<>> /\ s[Len(s)] = " " THEN TrimRight(SubSeq(s, 1, Len(s) - 1)) ELSE s

Trim(s) == TrimRight(TrimLeft(s))

\* String.prototype.toLowerCase, on the letters the model uses
LowerChar(c) ==
    CASE c = "A" -> "a"
      [] c = "B" -> "b"
      [] c = "K" -> "k"
      [] c = "G" -> "g"
      [] OTHER -> c

ToLowerCase(s) == [i \in 1..Len(s) |-> LowerChar(s[i])]

\* the characters of s as one string
RECURSIVE Str(_)
Str(s) == IF s = <<>> THEN "" ELSE s[1] \o Str(Tail(s))

\* String(n) for an integer n
Digit(d) == <<"0", "1", "2", "3", "4", "5", "6", "7", "8", "9">>[d + 1]

RECURSIVE NatStr(_)
NatStr(n) == IF n < 10 THEN Digit(n) ELSE NatStr(n \div 10) \o Digit(n % 10)

NumStr(n) == IF n < 0 THEN "-" \o NatStr(0 - n) ELSE NatStr(n)

\* the application/x-www-form-urlencoded serializer of URLSearchParams.toString():
\* letters, digits and *-._ are kept, a space becomes +, every other byte is %XX
UrlEncodeChar(c) ==
    CASE c = " " -> "+"
      [] c = "&" -> "%26"
      [] c = "=" -> "%3D"
      [] c = ":" -> "%3A"
      [] c = "," -> "%2C"
      [] c = "+" -> "%2B"
      [] c = "%" -> "%25"
      [] OTHER -> c

RECURSIVE UrlEncode(_)
UrlEncode(s) == IF s = <<>> THEN "" ELSE UrlEncodeChar(s[1]) \o UrlEncode(Tail(s))

----------------------------------------------------------------------------
(* ticketmaster.ts: the TTL cache *)

\* a getCache that already treats the expiry instant itself as expired
getCacheResultExpiredAtBoundary(c, key, t) ==
    IF key \notin DOMAIN c THEN JsNull
    ELSE IF t >= c[key].expiresAt THEN JsNull
    ELSE c[key].value

\* getCache: the value returned (null when there is no entry or it has expired)
getCacheResult(c, key, t) ==
    IF key \notin DOMAIN c THEN JsNull
    ELSE IF t > c[key].expiresAt THEN JsNull
    ELSE c[key].value

\* a getCache that leaves an expired entry in the Map
getCacheMapKeepingExpired(c, key, t) == c

\* getCache: the Map afterwards (an expired entry is deleted)
getCacheMap(c, key, t) ==
    IF key \in DOMAIN c /\ t > c[key].expiresAt
    THEN [k \in DOMAIN c \ {key} |-> c[k]]
    ELSE c

\* a setCache that keeps the entry a key already has
setCacheIfAbsent(c, key, value, ttlMs, t) ==
    IF key \in DOMAIN c THEN c
    ELSE [k \in DOMAIN c \cup {key} |->
            IF k = key THEN [value |-> value, expiresAt |-> t + ttlMs] ELSE c[k]]

\* setCache: the Map afterwards
setCache(c, key, value, ttlMs, t) ==
    [k \in DOMAIN c \cup {key} |->
        IF k = key THEN [value |-> value, expiresAt |-> t + ttlMs] ELSE c[k]]

(* part_000: the same cache with the fixed one-day lifetime *)

getCachedResult(c, key, t) ==
    IF key \notin DOMAIN c THEN JsNull
    ELSE IF t > c[key].expiresAt THEN JsNull
    ELSE c[key].data

getCachedMap(c, key, t) ==
    IF key \in DOMAIN c /\ t > c[key].expiresAt
    THEN [k \in DOMAIN c \ {key} |-> c[k]]
    ELSE c

setCached(c, key, data, t) ==
    [k \in DOMAIN c \cup {key} |->
        IF k = key THEN [data |-> data, expiresAt |-> t + ONE_DAY_MS] ELSE c[k]]

\* an entry for key that has not expired at time t
Fresh(c, key, t) == key \in DOMAIN c /\ ~(t > c[key].expiresAt)

EmptyMap == [k \in {} |-> JsNull]

----------------------------------------------------------------------------
(* ticketmaster.ts: query string and cache keys *)

\* a parameter handed to buildQuery: a string, a number or undefined
PStr(k, optChars) ==
    [k |-> k, kind |-> IF optChars = {} THEN "undefined" ELSE "string",
     s |-> OrElse(optChars, <<>>), n |-> 0]
PNum(k, n) == [k |-> k, kind |-> "number", s |-> <<>>, n |-> n]

\* a test that skips only undefined
SkippedOnlyUndefined(p) == p.kind = "undefined"

\* if (v === undefined || v === "") continue;
Skipped(p) == p.kind = "undefined" \/ (p.kind = "string" /\ p.s = <<>>)

\* name=String(v), form-urlencoded (the names are plain letters)
Pair(p) == p.k \o "=" \o (IF p.kind = "number" THEN NumStr(p.n) ELSE UrlEncode(p.s))

\* buildQuery: the kept parameters, in order, joined by &
RECURSIVE buildQuery(_)
buildQuery(params) ==
    IF params = <<>> THEN ""
    ELSE LET rest == buildQuery(Tail(params)) IN
         IF Skipped(Head(params)) THEN rest
         ELSE IF rest = "" THEN Pair(Head(params))
         ELSE Pair(Head(params)) \o "&" \o rest

\* a requireApiKey that rejects only an undefined key
ApiKeyMissingOnlyUndefined(e) == e.apiKey = {}

\* if (!key) throw: undefined and "" are rejected
ApiKeyMissing(e) == e.apiKey = {} \/ Get(e.apiKey) = <<>>

\* process.env.TICKETMASTER_COUNTRY_CODE || "GB"
CountryCode(e) ==
    IF e.countryCode = {} \/ Get(e.countryCode) = <<>> THEN <<"G", "B">>
    ELSE Get(e.countryCode)

\* input.size ?? 20
SearchSize(input) == OrElse(input.size, TM_SEARCH_DEFAULT_SIZE)

SearchQuery(e, input) ==
    buildQuery(<< PStr("apikey", e.apiKey),
                  PStr("countryCode", Some(CountryCode(e))),
                  PStr("keyword", input.keyword),
                  PStr("city", input.city),
                  PStr("startDateTime", input.startDateTime),
                  PStr("endDateTime", input.endDateTime),
                  PNum("size", SearchSize(input)),
                  PStr("sort", Some(<<"d", "a", "t", "e", ",", "a", "s", "c">>)) >>)

SearchKey(e, input) == "tm:search:" \o SearchQuery(e, input)

EventQuery(e) ==
    buildQuery(<< PStr("apikey", e.apiKey),
                  PStr("countryCode", Some(CountryCode(e))) >>)

EventKey(e, input) == "tm:event:" \o Str(input.eventId) \o ":" \o EventQuery(e)

\* a q that is not trimmed
VenuesQUntrimmed(input) == OrElse(input.q, <<>>)

\* (input.q ?? "").trim()
VenuesQ(input) == Trim(OrElse(input.q, <<>>))

\* input.size ?? 8
VenuesSize(input) == OrElse(input.size, TM_VENUES_DEFAULT_SIZE)

VenuesQuery(e, input) ==
    buildQuery(<< PStr("apikey", e.apiKey),
                  PStr("countryCode", Some(CountryCode(e))),
                  PStr("keyword", Some(VenuesQ(input))),
                  PStr("city", input.city),
                  PNum("size", VenuesSize(input)) >>)

VenuesKey(e, input) == "tm:venues:" \o VenuesQuery(e, input)

(* part_000: cache key of the artist search *)

\* params.q.trim()
MbQ(input) == Trim(input.q)

Min(a, b) == IF a < b THEN a ELSE b
Max(a, b) == IF a > b THEN a ELSE b

\* Math.min(Math.max(params.limit ?? 8, 1), 25)
MbLimit(input) ==
    Min(Max(OrElse(input.limit, MB_DEFAULT_LIMIT), MB_MIN_LIMIT), MB_MAX_LIMIT)

\* an artist key that leaves the limit out
MbKeyWithoutLimit(input) ==
    "mb:artist:" \o Str(ToLowerCase(MbQ(input)))

\* an artist key that keeps the letter case of q
MbKeyCaseSensitive(input) ==
    "mb:artist:" \o Str(MbQ(input)) \o ":" \o NumStr(MbLimit(input))

MbKey(input) ==
    "mb:artist:" \o Str(ToLowerCase(MbQ(input))) \o ":" \o NumStr(MbLimit(input))

----------------------------------------------------------------------------
(* Upstream responses and their reshaping *)

\* ticketmaster.ts 164-172: { venues: (json?._embedded?.venues ?? []).map(...) };
\* city and countryCode are null (here {}) when the upstream record has none
NormVenue(v) == [id |-> v.id, name |-> v.name, city |-> v.city, countryCode |-> v.countryCode]

VenuesPayload(json) ==
    [venues |-> IF "venues" \notin DOMAIN json \/ json.venues = {} THEN <<>>
                ELSE [i \in 1..Len(Get(json.venues)) |-> NormVenue(Get(json.venues)[i])]]

\* part_000 95-103: { count: artists.length, artists: (data.artists ?? []).map(...) }
NormArtist(a) ==
    [id |-> a.id, name |-> a.name, country |-> a.country,
     disambiguation |-> a.disambiguation, score |-> a.score]

\* a payload that hands the upstream records on as they are
MbPayloadUnmapped(data) ==
    LET artists == IF data.artists = {} THEN <<>> ELSE Get(data.artists)
    IN [count |-> Len(artists), artists |-> artists]

MbPayload(data) ==
    LET artists == IF data.artists = {} THEN <<>>
                   ELSE [i \in 1..Len(Get(data.artists)) |-> NormArtist(Get(data.artists)[i])]
    IN [count |-> Len(artists), artists |-> artists]

----------------------------------------------------------------------------
(* The inputs and upstream answers the model runs the proxies on *)

NoFilters == [keyword |-> None, city |-> None, startDateTime |-> None,
              endDateTime |-> None, size |-> None]

SearchInputs ==
    { [NoFilters EXCEPT !.keyword = Some(<<"a">>)],
      [NoFilters EXCEPT !.keyword = Some(<<"a">>), !.size = Some(TM_SEARCH_DEFAULT_SIZE)] }

EventInputs == { [eventId |-> <<"e">>] }

VenuesInputs ==
    { [q |-> Some(<<>>), city |-> None, size |-> None],
      [q |-> Some(<<" ">>), city |-> None, size |-> None],
      [q |-> Some(<<"a">>), city |-> None, size |-> None] }

MbInputs == { [q |-> <<"a">>, limit |-> None],
              [q |-> <<" ", "A">>, limit |-> Some(MB_DEFAULT_LIMIT)] }

\* parsed JSON bodies of a 200 answer to the pass-through operations
PassThroughBodies == {JsNull, JsObject(1)}

RawVenue == [id |-> Some(<<"v">>), name |-> Some(<<"a">>), city |-> None,
             countryCode |-> Some(<<"G", "B">>), url |-> <<"u">>]

VenuesBodies == { JsNull,
                  [json |-> "object", venues |-> None],
                  [json |-> "object", venues |-> Some(<<RawVenue>>)] }

RawArtist == [id |-> <<"m">>, name |-> <<"a">>, country |-> Some(<<"G", "B">>),
              disambiguation |-> None, score |-> Some(100), type |-> <<"g">>]

OtherRawArtist == [id |-> <<"n">>, name |-> <<"b">>, country |-> None,
                   disambiguation |-> Some(<<"d">>), score |-> None, type |-> <<"p">>]

MbBodies == { [json |-> "object", artists |-> None],
              [json |-> "object", artists |-> Some(<<RawArtist>>)],
              [json |-> "object", artists |-> Some(<<OtherRawArtist, RawArtist>>)] }

\* the bodies the model lets the upstream answer an operation with
BodiesFor(op) == IF op = "searchTmVenuesUk" THEN VenuesBodies ELSE PassThroughBodies

FailureKinds == {"status", "transport"}

ApiKeys == {None, Some(<<>>), Some(<<"K">>)}

----------------------------------------------------------------------------
(* Invocations *)

TmOps == {"searchTmEventsUk", "getTmEventByIdUk", "searchTmVenuesUk"}

\* a proxy operation that has just been called
NewCall(op, input) ==
    [op |-> op, input |-> input,
     apiKey |-> env.apiKey,     \* TICKETMASTER_API_KEY at the call
     key |-> None,              \* its cache key, once built
     seen |-> None,             \* the unexpired value the cache held for key at the call
     evicted |-> FALSE,         \* its lookup deleted an expired entry
     pc |-> "start",            \* sleeping | fetching | done | failed
     startedAt |-> now,
     wakeAt |-> None,           \* when its throttle sleep is due to end
     outbound |-> 0,            \* the fetch() calls it has made
     doneAt |-> None,           \* when it returned its result
     result |-> None, error |-> "none"]

\* the call after its cache lookup under key: what it saw, and whether the lookup evicted
Looked(call, key, seen, evicted) ==
    [call EXCEPT !.key = Some(key), !.seen = seen, !.evicted = evicted]

Returned(call, value) ==
    [call EXCEPT !.pc = "done", !.result = Some(value), !.doneAt = Some(now)]
Threw(call, error) == [call EXCEPT !.pc = "failed", !.error = error]
Fetching(call) == [call EXCEPT !.pc = "fetching", !.outbound = @ + 1]
Sleeping(call, ms) == [call EXCEPT !.pc = "sleeping", !.wakeAt = Some(now + ms)]

Remove(seq, i) == SubSeq(seq, 1, i - 1) \o SubSeq(seq, i + 1, Len(seq))

\* a new invocation ran up to its return, its throw or its first await
Began(call) ==
    /\ started' = started + 1
    /\ last' = Some(call)
    /\ calls' = IF call.pc \in {"done", "failed"} THEN calls ELSE Append(calls, call)

\* the i-th invocation in flight resumed and ran up to its next await
Resumed(i, call) ==
    /\ UNCHANGED started
    /\ last' = Some(call)
    /\ calls' = [calls EXCEPT ![i] = call]

\* the i-th invocation in flight resumed and returned or threw
Finished(i, call) ==
    /\ UNCHANGED started
    /\ last' = Some(call)
    /\ calls' = Remove(calls, i)

\* fetch() towards MusicBrainz starts now
MbOutbound == mbStarts' = IF Len(mbStarts) < 2 THEN Append(mbStarts, now)
                          ELSE <<mbStarts[2], now>>

----------------------------------------------------------------------------
(* ticketmaster.ts: the three operations, up to their first await *)

\* the part the three operations share after the key is built: getCache, then
\* `if (cached) return cached`, else fetch(url)
TmLookupThenFetch(call, key) ==
    LET cached == getCacheResult(tmCache, key, now)
        looked == Looked(call, key,
                         IF Fresh(tmCache, key, now) THEN Some(tmCache[key].value) ELSE None,
                         getCacheMap(tmCache, key, now) # tmCache)
    IN /\ tmCache' = getCacheMap(tmCache, key, now)
       /\ IF Truthy(cached) THEN Began(Returned(looked, cached))
                            ELSE Began(Fetching(looked))

\* requireApiKey() throws
TmConfigError(call) ==
    /\ Began(Threw(call, "config"))
    /\ UNCHANGED tmCache

searchTmEventsUk(input) ==
    /\ LET call == NewCall("searchTmEventsUk", input) IN
       IF ApiKeyMissing(env) THEN TmConfigError(call)
       ELSE TmLookupThenFetch(call, SearchKey(env, input))
    /\ UNCHANGED <<now, ticks, env, mbCache, lastRequestAt, mbStarts>>
    /\ UNCHANGED <<kvVars, keyVars, queryVars, gigVars>>

getTmEventByIdUk(input) ==
    /\ LET call == NewCall("getTmEventByIdUk", input) IN
       IF ApiKeyMissing(env) THEN TmConfigError(call)
       ELSE TmLookupThenFetch(call, EventKey(env, input))
    /\ UNCHANGED <<now, ticks, env, mbCache, lastRequestAt, mbStarts>>
    /\ UNCHANGED <<kvVars, keyVars, queryVars, gigVars>>

searchTmVenuesUk(input) ==
    /\ LET call == NewCall("searchTmVenuesUk", input) IN
       IF ApiKeyMissing(env) THEN TmConfigError(call)
       ELSE IF VenuesQ(input) = <<>>
       THEN /\ Began(Returned(call, [venues |-> <<>>]))
            /\ UNCHANGED tmCache
       ELSE TmLookupThenFetch(call, VenuesKey(env, input))
    /\ UNCHANGED <<now, ticks, env, mbCache, lastRequestAt, mbStarts>>
    /\ UNCHANGED <<kvVars, keyVars, queryVars, gigVars>>

(* ticketmaster.ts: the continuation after fetch() *)

TmFetching(i) == i \in DOMAIN calls /\ calls[i].op \in TmOps /\ calls[i].pc = "fetching"

TtlOf(op) == CASE op = "searchTmEventsUk" -> TM_SEARCH_TTL_MS
               [] op = "getTmEventByIdUk" -> TM_EVENT_TTL_MS
               [] op = "searchTmVenuesUk" -> TM_VENUES_TTL_MS

\* res.ok: parse, reshape (venues only), setCache, return
TmRespondOk(i, json) ==
    /\ TmFetching(i)
    /\ json \in BodiesFor(calls[i].op)
    /\ LET call == calls[i]
           value == IF call.op = "searchTmVenuesUk" THEN VenuesPayload(json) ELSE json
       IN /\ tmCache' = setCache(tmCache, Get(call.key), value, TtlOf(call.op), now)
          /\ Finished(i, Returned(call, value))
    /\ UNCHANGED <<now, ticks, env, mbCache, lastRequestAt, mbStarts>>
    /\ UNCHANGED <<kvVars, keyVars, queryVars, gigVars>>

\* a failure path that stores the failure before it throws
TmRespondFailCachingError(i, kind) ==
    /\ TmFetching(i)
    /\ tmCache' = setCache(tmCache, Get(calls[i].key), JsObject(0), TtlOf(calls[i].op), now)
    /\ Finished(i, Threw(calls[i], kind))
    /\ UNCHANGED <<now, ticks, env, mbCache, lastRequestAt, mbStarts>>
    /\ UNCHANGED <<kvVars, keyVars, queryVars, gigVars>>

\* !res.ok (kind "status") or fetch() rejecting (kind "transport"): throw
TmRespondFail(i, kind) ==
    /\ TmFetching(i)
    /\ Finished(i, Threw(calls[i], kind))
    /\ UNCHANGED <<now, ticks, env, tmCache, mbCache, lastRequestAt, mbStarts>>
    /\ UNCHANGED <<kvVars, keyVars, queryVars, gigVars>>

----------------------------------------------------------------------------
(* part_000: throttleOneReqPerSec and searchMbArtists *)

\* a throttle that sleeps half the interval whatever time has elapsed
ThrottleSleepMsHalf(last_, t) ==
    IF t - last_ < THROTTLE_MS THEN THROTTLE_MS \div 2 ELSE 0

\* delta < 1000 ? 1000 - delta : no sleep (0)
ThrottleSleepMs(last_, t) ==
    IF t - last_ < THROTTLE_MS THEN THROTTLE_MS - (t - last_) ELSE 0

\* throttleOneReqPerSec from its start, then fetch() when it returns at once
ThrottleThenFetch(call) ==
    LET ms == ThrottleSleepMs(lastRequestAt, now) IN
    IF ms > 0
    THEN /\ Began(Sleeping(call, ms))
         /\ UNCHANGED <<lastRequestAt, mbStarts>>
    ELSE /\ lastRequestAt' = now
         /\ Began(Fetching(call))
         /\ MbOutbound

\* an artist search that throttles before it looks in the cache
searchMbArtistsThrottleFirst(input) ==
    /\ LET key == MbKey(input)
           cached == getCachedResult(mbCache, key, now)
           call == Looked(NewCall("searchMbArtists", input), key,
                          IF Fresh(mbCache, key, now) THEN Some(mbCache[key].data) ELSE None,
                          getCachedMap(mbCache, key, now) # mbCache)
           ms == ThrottleSleepMs(lastRequestAt, now)
       IN /\ mbCache' = getCachedMap(mbCache, key, now)
          /\ IF ms > 0
             THEN /\ Began(Sleeping(call, ms))
                  /\ UNCHANGED <<lastRequestAt, mbStarts>>
             ELSE /\ lastRequestAt' = now
                  /\ IF Truthy(cached)
                     THEN /\ Began(Returned(call, cached))
                          /\ UNCHANGED mbStarts
                     ELSE /\ Began(Fetching(call))
                          /\ MbOutbound
    /\ UNCHANGED <<now, ticks, env, tmCache>>
    /\ UNCHANGED <<kvVars, keyVars, queryVars, gigVars>>

searchMbArtists(input) ==
    /\ LET key == MbKey(input)
           cached == getCachedResult(mbCache, key, now)
           call == Looked(NewCall("searchMbArtists", input), key,
                          IF Fresh(mbCache, key, now) THEN Some(mbCache[key].data) ELSE None,
                          getCachedMap(mbCache, key, now) # mbCache)
       IN /\ mbCache' = getCachedMap(mbCache, key, now)
          /\ IF Truthy(cached)
             THEN /\ Began(Returned(call, cached))
                  /\ UNCHANGED <<lastRequestAt, mbStarts>>
             ELSE ThrottleThenFetch(call)
    /\ UNCHANGED <<now, ticks, env, tmCache>>
    /\ UNCHANGED <<kvVars, keyVars, queryVars, gigVars>>

\* the setTimeout of sleep() fires, no earlier than it is due and in no guaranteed
\* order among the timers that are due: throttleOneReqPerSec sets lastRequestAt
\* and returns, and searchMbArtists calls fetch()
MbWake(i) ==
    /\ i \in DOMAIN calls
    /\ calls[i].pc = "sleeping"
    /\ now >= Get(calls[i].wakeAt)
    /\ lastRequestAt' = now
    /\ Resumed(i, Fetching(calls[i]))
    /\ MbOutbound
    /\ UNCHANGED <<now, ticks, env, tmCache, mbCache>>
    /\ UNCHANGED <<kvVars, keyVars, queryVars, gigVars>>

MbFetching(i) == i \in DOMAIN calls /\ calls[i].op = "searchMbArtists" /\ calls[i].pc = "fetching"

\* res.ok: parse, map the artists, setCached, return
MbRespondOk(i, data) ==
    /\ MbFetching(i)
    /\ LET payload == MbPayload(data) IN
       /\ mbCache' = setCached(mbCache, Get(calls[i].key), payload, now)
       /\ Finished(i, Returned(calls[i], payload))
    /\ UNCHANGED <<now, ticks, env, tmCache, lastRequestAt, mbStarts>>
    /\ UNCHANGED <<kvVars, keyVars, queryVars, gigVars>>

\* a failure path that tries the outbound call once more
MbRespondFailRetrying(i, kind) ==
    /\ MbFetching(i)
    /\ Resumed(i, Fetching(calls[i]))
    /\ MbOutbound
    /\ UNCHANGED <<now, ticks, env, tmCache, mbCache, lastRequestAt>>
    /\ UNCHANGED <<kvVars, keyVars, queryVars, gigVars>>

\* !res.ok (kind "status") or fetch() rejecting (kind "transport"): throw
MbRespondFail(i, kind) ==
    /\ MbFetching(i)
    /\ Finished(i, Threw(calls[i], kind))
    /\ UNCHANGED <<now, ticks, env, tmCache, mbCache, lastRequestAt, mbStarts>>
    /\ UNCHANGED <<kvVars, keyVars, queryVars, gigVars>>

----------------------------------------------------------------------------
(* The gig list: src/src/index.ts (lines 170-554) and the seed data          *)
(* (src/unnamed/part_001).  A request body field or a gig field is a         *)
(* JavaScript value: JsUndefined when the field is absent, JsString(s) with  *)
(* s the characters of the string, JsNumber(n), JsInfinity, JsNull, JsFalse. *)
(* A gig id is only compared and is a TLA+ string.                           *)

JsUndefined == [json |-> "undefined"]
JsInfinity == [json |-> "Infinity"]
JsString(s) == [json |-> "string", s |-> s]
JsNumber(n) == [json |-> "number", n |-> n]

\* the characters of a TLA+ string
Chars(str) == [i \in 1..Len(str) |-> SubSeq(str, i, i)]

\* typeof v
TypeOf(v) ==
    CASE v.json = "string" -> "string"
      [] v.json \in {"number", "Infinity"} -> "number"
      [] v.json = "undefined" -> "undefined"
      [] v.json = "false" -> "boolean"
      [] OTHER -> "object"

\* typeof v === "string" && v.trim() !== ""
NonEmptyString(v) == TypeOf(v) = "string" /\ Trim(v.s) # <<>>

\* typeof v === "string" && v.trim() !== "" ? v.trim() : undefined
TrimmedOrUndefined(v) == IF NonEmptyString(v) THEN JsString(Trim(v.s)) ELSE JsUndefined

IsDigit(c) == c \in {"0", "1", "2", "3", "4", "5", "6", "7", "8", "9"}

DigitValue(c) == CHOOSE d \in 0..9 : Digit(d) = c

\* Number(s) for a string of digits
RECURSIVE NumberOf(_)
NumberOf(s) ==
    IF s = <<>> THEN 0 ELSE 10 * NumberOf(SubSeq(s, 1, Len(s) - 1)) + DigitValue(s[Len(s)])

\* /^\d{4}-\d{2}-\d{2}$/.test(s)
dateRegex(s) ==
    /\ Len(s) = 10
    /\ \A i \in {1, 2, 3, 4, 6, 7, 9, 10} : IsDigit(s[i])
    /\ s[5] = "-" /\ s[8] = "-"

IsLeapYear(y) == (y % 4 = 0 /\ y % 100 # 0) \/ y % 400 = 0

DaysInMonth(y, m) ==
    IF m = 2 THEN (IF IsLeapYear(y) THEN 29 ELSE 28)
    ELSE IF m \in {4, 6, 9, 11} THEN 30 ELSE 31

\* new Date(dateStr + "T00:00:00Z") for a string that passed dateRegex: the
\* date-time parser rejects a month outside 01..12 and a day outside 01..31
\* (an invalid Date, whose getTime() is NaN: None here) and carries a day past
\* the end of its month over into the next month
ParseDate(s) ==
    LET y == NumberOf(SubSeq(s, 1, 4))
        m == NumberOf(SubSeq(s, 6, 7))
        d == NumberOf(SubSeq(s, 9, 10))
    IN  IF m \notin 1..12 \/ d \notin 1..31 THEN None
        ELSE IF d > DaysInMonth(y, m)
             THEN Some([year |-> y, month |-> m + 1, date |-> d - DaysInMonth(y, m)])
             ELSE Some([year |-> y, month |-> m, date |-> d])

\* errors.push(...) when the condition holds
ErrorIf(cond, message) == IF cond THEN <<message>> ELSE <<>>

\* date checks that stop at the format
DateErrorsFormatOnly(v) ==
    IF ~NonEmptyString(v) THEN <<"date must be a non-empty string">>
    ELSE ErrorIf(~dateRegex(Trim(v.s)), "date must be in YYYY-MM-DD format")

\* the date checks of POST /gigs
DateErrors(v) ==
    IF ~NonEmptyString(v) THEN <<"date must be a non-empty string">>
    ELSE LET dateStr == Trim(v.s) IN
         IF ~dateRegex(dateStr) THEN <<"date must be in YYYY-MM-DD format">>
         ELSE LET parsedDate == ParseDate(dateStr) IN
              IF parsedDate = None THEN <<"date must be a valid date">>
              ELSE IF \/ NumberOf(SubSeq(dateStr, 1, 4)) # Get(parsedDate).year
                      \/ NumberOf(SubSeq(dateStr, 6, 7)) # Get(parsedDate).month
                      \/ NumberOf(SubSeq(dateStr, 9, 10)) # Get(parsedDate).date
                   THEN <<"date must be a valid calendar date">>
                   ELSE <<>>

\* the rating check, shared in form by POST /gigs and PATCH /gigs/:id
RatingErrors(v) ==
    IF v # JsUndefined /\ v # JsNull
       /\ (\/ TypeOf(v) # "number"
           \/ v = JsInfinity
           \/ v.n < 1
           \/ v.n > 5)
    THEN <<"rating must be a number between 1 and 5">>
    ELSE <<>>

IsHex(c) == IsDigit(c) \/ c \in {"a", "b", "c", "d", "e", "f", "A", "B", "C", "D", "E", "F"}

\* /^[0-9a-f]{8}-[0-9a-f]{4}-[0-9a-f]{4}-[0-9a-f]{4}-[0-9a-f]{12}$/i.test(s)
uuidRegex(s) ==
    /\ Len(s) = 36
    /\ \A i \in 1..36 : IF i \in {9, 14, 19, 24} THEN s[i] = "-" ELSE IsHex(s[i])

\* the errors array of POST /gigs, in the order the checks push them
CreateErrors(gigInput) ==
    LET artistMbid == TrimmedOrUndefined(gigInput.artistMbid)
        externalSource == TrimmedOrUndefined(gigInput.externalSource)
        externalId == TrimmedOrUndefined(gigInput.externalId)
    IN  ErrorIf(~NonEmptyString(gigInput.artist), "artist must be a non-empty string")
        \o ErrorIf(~NonEmptyString(gigInput.venue), "venue must be a non-empty string")
        \o ErrorIf(~NonEmptyString(gigInput.city), "city must be a non-empty string")
        \o DateErrors(gigInput.date)
        \o RatingErrors(gigInput.rating)
        \o ErrorIf(gigInput.notes # JsUndefined /\ gigInput.notes # JsNull
                     /\ TypeOf(gigInput.notes) # "string",
                   "notes must be a string")
        \o ErrorIf(artistMbid # JsUndefined /\ ~uuidRegex(artistMbid.s),
                   "artistMbid must be a valid UUID")
        \o ErrorIf((externalSource # JsUndefined) # (externalId # JsUndefined),
                   "externalSource and externalId must be provided together")

\* the gig POST /gigs builds from a body that passed validation
NewGig(id, gigInput) ==
    [ id |-> id,
      artist |-> JsString(Trim(gigInput.artist.s)),
      venue |-> JsString(Trim(gigInput.venue.s)),
      city |-> JsString(Trim(gigInput.city.s)),
      date |-> JsString(Trim(gigInput.date.s)),
      rating |-> gigInput.rating,
      notes |-> IF TypeOf(gigInput.notes) = "string"
                THEN JsString(Trim(gigInput.notes.s)) ELSE JsUndefined,
      artistMbid |-> TrimmedOrUndefined(gigInput.artistMbid),
      externalSource |-> TrimmedOrUndefined(gigInput.externalSource),
      externalId |-> TrimmedOrUndefined(gigInput.externalId) ]

\* a duplicate search that never finds a match
FindExternalSkipped(list, externalSource, externalId) == 0

\* gigs.find(g => g.externalSource === externalSource && g.externalId === externalId),
\* as the index of the first match, 0 when there is none
FindExternal(list, externalSource, externalId) ==
    LET hits == {i \in DOMAIN list : /\ list[i].externalSource = externalSource
                                     /\ list[i].externalId = externalId}
    IN  IF hits = {} THEN 0 ELSE CHOOSE i \in hits : \A j \in hits : i <= j

\* gigs.findIndex(g => g.id === id), from 1; 0 stands for -1
FindIndex(list, id) ==
    LET hits == {i \in DOMAIN list : list[i].id = id}
    IN  IF hits = {} THEN 0 ELSE CHOOSE i \in hits : \A j \in hits : i <= j

\* a patch that spreads the body's association over the stored one
PatchedGigTakingAssociation(existing, body) ==
    [ existing EXCEPT
        !.artist = IF TypeOf(body.artist) = "string" THEN JsString(Trim(body.artist.s)) ELSE @,
        !.venue = IF TypeOf(body.venue) = "string" THEN JsString(Trim(body.venue.s)) ELSE @,
        !.city = IF TypeOf(body.city) = "string" THEN JsString(Trim(body.city.s)) ELSE @,
        !.date = IF TypeOf(body.date) = "string" THEN JsString(Trim(body.date.s)) ELSE @,
        !.rating = IF body.rating # JsUndefined THEN body.rating ELSE @,
        !.notes = IF TypeOf(body.notes) = "string" THEN JsString(Trim(body.notes.s)) ELSE @,
        !.externalSource = IF body.externalSource # JsUndefined THEN body.externalSource ELSE @,
        !.externalId = IF body.externalId # JsUndefined THEN body.externalId ELSE @ ]

\* a patch that takes the body's artist as it came
PatchedGigArtistUntrimmed(existing, body) ==
    [ existing EXCEPT
        !.artist = IF TypeOf(body.artist) = "string" THEN body.artist ELSE @,
        !.venue = IF TypeOf(body.venue) = "string" THEN JsString(Trim(body.venue.s)) ELSE @,
        !.city = IF TypeOf(body.city) = "string" THEN JsString(Trim(body.city.s)) ELSE @,
        !.date = IF TypeOf(body.date) = "string" THEN JsString(Trim(body.date.s)) ELSE @,
        !.rating = IF body.rating # JsUndefined THEN body.rating ELSE @,
        !.notes = IF TypeOf(body.notes) = "string" THEN JsString(Trim(body.notes.s)) ELSE @ ]

\* the object PATCH /gigs/:id builds from the stored gig and the body
PatchedGig(existing, body) ==
    [ existing EXCEPT
        !.artist = IF TypeOf(body.artist) = "string" THEN JsString(Trim(body.artist.s)) ELSE @,
        !.venue = IF TypeOf(body.venue) = "string" THEN JsString(Trim(body.venue.s)) ELSE @,
        !.city = IF TypeOf(body.city) = "string" THEN JsString(Trim(body.city.s)) ELSE @,
        !.date = IF TypeOf(body.date) = "string" THEN JsString(Trim(body.date.s)) ELSE @,
        !.rating = IF body.rating # JsUndefined THEN body.rating ELSE @,
        !.notes = IF TypeOf(body.notes) = "string" THEN JsString(Trim(body.notes.s)) ELSE @ ]

\* the errors array of PATCH /gigs/:id
PatchErrors(next) ==
    ErrorIf(~NonEmptyString(next.artist), "artist must be a non-empty string")
    \o ErrorIf(~NonEmptyString(next.venue), "venue must be a non-empty string")
    \o ErrorIf(~NonEmptyString(next.city), "city must be a non-empty string")
    \o (IF ~NonEmptyString(next.date) THEN <<"date must be a non-empty string">>
        ELSE ErrorIf(~dateRegex(next.date.s), "date must be in YYYY-MM-DD format"))
    \o RatingErrors(next.rating)

\* list.splice(index, 1)
Splice(list, index) == SubSeq(list, 1, index - 1) \o SubSeq(list, index + 1, Len(list))

\* the seed data
Gig(id, artist, venue, city, date, rating, notes) ==
    [ id |-> id,
      artist |-> JsString(Chars(artist)), venue |-> JsString(Chars(venue)),
      city |-> JsString(Chars(city)), date |-> JsString(Chars(date)),
      rating |-> JsNumber(rating), notes |-> JsString(Chars(notes)),
      artistMbid |-> JsUndefined, externalSource |-> JsUndefined, externalId |-> JsUndefined ]

SeedGigs ==
    << Gig("1", "The National", "Radio City Music Hall", "New York", "2024-05-15", 5,
           "Amazing setlist, played all the classics"),
       Gig("2", "Arcade Fire", "Madison Square Garden", "New York", "2024-08-22", 4,
           "Great energy but sound quality could have been better") >>

\* randomUUID(): an id no gig has had before
FreshId(n) == "u" \o NatStr(n)

\* a list an earlier run of the server saved: seed gig 1 and a gig posted then
EarlierGigs ==
    << SeedGigs[1],
       [ Gig("u0", "Low", "Barbican", "London", "2023-04-27", 5, "")
           EXCEPT !.externalSource = JsString(Chars("tm")),
                  !.externalId = JsString(Chars("e1")) ] >>

\* loadGigsFromDB() has been called and awaits db.get("gigs")
LoaderStarted == [pc |-> "getting", stored |-> None, saving |-> <<>>]

\* the persistence store: db.set(key, value) takes the value it was handed when
\* the call was made, and the store holds it once the call has resolved; a call
\* that rejects leaves the store as it was
dbSet(store, value, ok) == IF ok THEN Some(value) ELSE store

Response(op, status, body) == [op |-> op, status |-> status, body |-> body]

nonGigVars == <<now, ticks, started, proxyVars, kvVars, keyVars, queryVars>>

\* the store answers the loader's db.get("gigs") with what it holds now
LoadGet ==
    /\ loader.pc = "getting"
    /\ loader' = [loader EXCEPT !.pc = "got", !.stored = dbStore]
    /\ UNCHANGED <<gigs, dbStore, handlers, resp, acked, removed, gigReqs, nonGigVars>>

\* loadGigsFromDB resumes with the answer: a non-empty array replaces the
\* in-memory list, anything else makes it save the in-memory list
loadGigsFromDB ==
    /\ loader.pc = "got"
    /\ IF loader.stored # None /\ Get(loader.stored) # <<>>
       THEN /\ gigs' = Get(loader.stored)
            /\ loader' = [loader EXCEPT !.pc = "done"]
       ELSE /\ loader' = [loader EXCEPT !.pc = "seeding", !.saving = gigs]
            /\ UNCHANGED gigs
    /\ UNCHANGED <<dbStore, handlers, resp, acked, removed, gigReqs, nonGigVars>>

\* its db.set("gigs", gigs) resolves or rejects; a rejection is logged
LoadSeeded(ok) ==
    /\ loader.pc = "seeding"
    /\ dbStore' = dbSet(dbStore, loader.saving, ok)
    /\ loader' = [loader EXCEPT !.pc = "done"]
    /\ UNCHANGED <<gigs, handlers, resp, acked, removed, gigReqs, nonGigVars>>

\* its db.get("gigs") rejects: the catch block logs the error
LoadGetFailed ==
    /\ loader.pc = "getting"
    /\ loader' = [loader EXCEPT !.pc = "done"]
    /\ UNCHANGED <<gigs, dbStore, handlers, resp, acked, removed, gigReqs, nonGigVars>>

\* a handler has mutated the list, called db.set("gigs", gigs) and awaits it
Saving(op, list, status, body) == [op |-> op, saving |-> list, status |-> status, body |-> body]

\* POST /gigs, up to its await
PostGigs(gigInput) ==
    /\ gigReqs' = gigReqs + 1
    /\ LET errors == CreateErrors(gigInput)
           externalSource == TrimmedOrUndefined(gigInput.externalSource)
           externalId == TrimmedOrUndefined(gigInput.externalId)
           already == IF externalSource # JsUndefined /\ externalId # JsUndefined
                      THEN FindExternal(gigs, externalSource, externalId)
                      ELSE 0
           newGig == NewGig(FreshId(gigReqs + 1), gigInput)
       IN  IF errors # <<>>
           THEN /\ resp' = Some(Response("POST /gigs", 400,
                                         [error |-> "Validation failed", details |-> errors]))
                /\ UNCHANGED <<gigs, handlers>>
           ELSE IF already # 0
           THEN /\ resp' = Some(Response("POST /gigs", 409,
                                         [message |-> "You've already logged this gig.",
                                          existingGigId |-> gigs[already].id]))
                /\ UNCHANGED <<gigs, handlers>>
           ELSE /\ gigs' = Append(gigs, newGig)
                /\ handlers' = Append(handlers, Saving("POST /gigs", gigs', 201, newGig))
                /\ UNCHANGED resp
    /\ UNCHANGED <<dbStore, loader, acked, removed, nonGigVars>>

\* PATCH /gigs/:id, up to its await
PatchGig(id, body) ==
    /\ gigReqs' = gigReqs + 1
    /\ LET index == FindIndex(gigs, id) IN
       IF index = 0
       THEN /\ resp' = Some(Response("PATCH /gigs/:id", 404, [error |-> "Gig not found"]))
            /\ UNCHANGED <<gigs, handlers>>
       ELSE LET next == PatchedGig(gigs[index], body)
                errors == PatchErrors(next)
            IN  IF errors # <<>>
                THEN /\ resp' = Some(Response("PATCH /gigs/:id", 400,
                                              [error |-> "Validation failed", details |-> errors]))
                     /\ UNCHANGED <<gigs, handlers>>
                ELSE /\ gigs' = [gigs EXCEPT ![index] = next]
                     /\ handlers' = Append(handlers, Saving("PATCH /gigs/:id", gigs', 200, next))
                     /\ UNCHANGED resp
    /\ UNCHANGED <<dbStore, loader, acked, removed, nonGigVars>>

\* DELETE /gigs/:id, up to its await
DeleteGig(id) ==
    /\ gigReqs' = gigReqs + 1
    /\ LET index == FindIndex(gigs, id) IN
       IF index = 0
       THEN /\ resp' = Some(Response("DELETE /gigs/:id", 404, [error |-> "Gig not found"]))
            /\ UNCHANGED <<gigs, handlers, removed>>
       ELSE /\ gigs' = Splice(gigs, index)
            /\ handlers' = Append(handlers, Saving("DELETE /gigs/:id", gigs', 200,
                                                   [deletedId |-> id, gig |-> gigs[index]]))
            /\ removed' = removed \cup {id}
            /\ UNCHANGED resp
    /\ UNCHANGED <<dbStore, loader, acked, nonGigVars>>

\* a handler that answers 500 when its db.set rejects
SettledStrict(i, ok) ==
    /\ dbStore' = dbSet(dbStore, handlers[i].saving, ok)
    /\ resp' = Some(Response(handlers[i].op, IF ok THEN handlers[i].status ELSE 500,
                             handlers[i].body))
    /\ handlers' = Splice(handlers, i)
    /\ acked' = IF ok /\ handlers[i].status = 201
                THEN acked \cup {handlers[i].body.id} ELSE acked
    /\ UNCHANGED <<gigs, loader, removed, gigReqs, nonGigVars>>

\* a handler's db.set resolves or rejects; a rejection is logged, and either way
\* the handler sends the response it prepared
Settled(i, ok) ==
    /\ dbStore' = dbSet(dbStore, handlers[i].saving, ok)
    /\ resp' = Some(Response(handlers[i].op, handlers[i].status, handlers[i].body))
    /\ handlers' = Splice(handlers, i)
    /\ acked' = IF handlers[i].status = 201 THEN acked \cup {handlers[i].body.id} ELSE acked
    /\ UNCHANGED <<gigs, loader, removed, gigReqs, nonGigVars>>

\* POST /gigs from its await on: res.status(201).json(newGig)
PostGigsSaved(i, ok) ==
    /\ i \in DOMAIN handlers /\ handlers[i].op = "POST /gigs"
    /\ Settled(i, ok)

\* PATCH /gigs/:id from its await on: res.json(next)
PatchGigSaved(i, ok) ==
    /\ i \in DOMAIN handlers /\ handlers[i].op = "PATCH /gigs/:id"
    /\ Settled(i, ok)

\* DELETE /gigs/:id from its await on: res.status(200).json({deletedId, gig})
DeleteGigSaved(i, ok) ==
    /\ i \in DOMAIN handlers /\ handlers[i].op = "DELETE /gigs/:id"
    /\ Settled(i, ok)

----------------------------------------------------------------------------
(* The environment of the proxies *)

\* time passes
Tick(d) ==
    /\ now' = now + d
    /\ ticks' = ticks + 1
    /\ UNCHANGED <<started, proxyVars, kvVars, keyVars, queryVars, gigVars>>

\* process.env.TICKETMASTER_API_KEY is read at every call; it is set, cleared or
\* emptied between calls
SetApiKey(k) ==
    /\ env.apiKey # k
    /\ env' = [env EXCEPT !.apiKey = k]
    /\ UNCHANGED <<now, ticks, started, tmCache, mbCache, lastRequestAt, calls, last, mbStarts>>
    /\ UNCHANGED <<kvVars, keyVars, queryVars, gigVars>>

\* the part of the initial state every specification shares: nothing has run yet
Idle ==
    /\ now = THROTTLE_MS        \* any clock reading at least one interval past 0
    /\ ticks = 0
    /\ started = 0
    /\ tmCache = EmptyMap
    /\ mbCache = EmptyMap
    /\ lastRequestAt = 0
    /\ calls = <<>>
    /\ last = None
    /\ mbStarts = <<>>
    /\ lastSet = EmptyMap /\ lastGet = None
    /\ reqA = None /\ reqB = None /\ keyA = None /\ keyB = None
    /\ queryParams = <<>> /\ queryString = None
    /\ gigs = SeedGigs
    /\ loader = LoaderStarted
    /\ handlers = <<>>
    /\ resp = None
    /\ acked = {} /\ removed = {}
    /\ gigReqs = 0

Configured == [apiKey |-> Some(<<"K">>), countryCode |-> None]

----------------------------------------------------------------------------
(* SpecTm: the events catalog proxy on its own *)

InitTm == Idle /\ dbStore = None /\ env \in [apiKey : ApiKeys, countryCode : {None}]

NextTm ==
    \/ started < MaxTmCalls /\ \E input \in SearchInputs : searchTmEventsUk(input)
    \/ started < MaxTmCalls /\ \E input \in EventInputs : getTmEventByIdUk(input)
    \/ started < MaxTmCalls /\ \E input \in VenuesInputs : searchTmVenuesUk(input)
    \/ \E i \in DOMAIN calls, json \in PassThroughBodies \cup VenuesBodies : TmRespondOk(i, json)
    \/ \E i \in DOMAIN calls, kind \in FailureKinds : TmRespondFail(i, kind)
    \/ ticks < MaxTmTicks /\ \E d \in {TM_SEARCH_TTL_MS, ONE_DAY_MS} : Tick(d)
    \/ \E k \in {None, Some(<<>>)} : SetApiKey(k)

SpecTm == InitTm /\ [][NextTm]_vars

----------------------------------------------------------------------------
(* SpecMb: the artist catalog proxy on its own *)

InitMb == Idle /\ dbStore = None /\ env = Configured

NextMb ==
    \/ started < MaxMbCalls /\ \E input \in MbInputs : searchMbArtists(input)
    \/ \E i \in DOMAIN calls : MbWake(i)
    \/ \E i \in DOMAIN calls, data \in MbBodies : MbRespondOk(i, data)
    \/ \E i \in DOMAIN calls, kind \in FailureKinds : MbRespondFail(i, kind)
    \/ ticks < MaxMbTicks /\ \E d \in {THROTTLE_MS \div 2, ONE_DAY_MS} : Tick(d)

SpecMb == InitMb /\ [][NextMb]_vars

----------------------------------------------------------------------------
(* Spec: both proxies in one process *)

Init == Idle /\ dbStore = None /\ env = Configured

Next ==
    \/ started < MaxCalls /\ \E input \in {[NoFilters EXCEPT !.keyword = Some(<<"a">>)]} :
                                    searchTmEventsUk(input)
    \/ started < MaxCalls /\ \E input \in EventInputs : getTmEventByIdUk(input)
    \/ started < MaxCalls /\ \E input \in {[q |-> Some(<<"a">>), city |-> None, size |-> None]} :
                                    searchTmVenuesUk(input)
    \/ \E i \in DOMAIN calls, json \in {JsObject(1), [json |-> "object", venues |-> None]} :
            TmRespondOk(i, json)
    \/ \E i \in DOMAIN calls : TmRespondFail(i, "status")
    \/ started < MaxCalls /\ \E input \in {[q |-> <<"a">>, limit |-> None]} :
                                    searchMbArtists(input)
    \/ \E i \in DOMAIN calls : MbWake(i)
    \/ \E i \in DOMAIN calls : MbRespondOk(i, [json |-> "object", artists |-> None])
    \/ \E i \in DOMAIN calls : MbRespondFail(i, "status")
    \/ ticks < MaxTicks /\ Tick(THROTTLE_MS \div 2)

Spec == Init /\ [][Next]_vars

----------------------------------------------------------------------------
(* SpecFail: both proxies over expiry and upstream failure *)

InitFail == Idle /\ dbStore = None /\ env = Configured

NextFail ==
    \/ started < MaxFailCalls /\ \E input \in {[NoFilters EXCEPT !.keyword = Some(<<"a">>)]} :
                                    searchTmEventsUk(input)
    \/ started < MaxFailCalls /\ \E input \in {[q |-> <<"a">>, limit |-> None]} :
                                    searchMbArtists(input)
    \/ \E i \in DOMAIN calls, json \in {JsNull, JsObject(1)} : TmRespondOk(i, json)
    \/ \E i \in DOMAIN calls, kind \in FailureKinds : TmRespondFail(i, kind)
    \/ \E i \in DOMAIN calls : MbWake(i)
    \/ \E i \in DOMAIN calls, data \in MbBodies : MbRespondOk(i, data)
    \/ \E i \in DOMAIN calls, kind \in FailureKinds : MbRespondFail(i, kind)
    \/ ticks < MaxFailTicks /\ \E d \in {THROTTLE_MS, ONE_DAY_MS} : Tick(d)

SpecFail == InitFail /\ [][NextFail]_vars

----------------------------------------------------------------------------
(* SpecCache: the two TTL caches driven directly, with any ttl *)

\* setCache(key, value, ttlMs) on the Ticketmaster cache
TmSet(key, value, ttlMs) ==
    /\ tmCache' = setCache(tmCache, key, value, ttlMs, now)
    /\ lastSet' = [k \in DOMAIN lastSet \cup {key} |->
                     IF k = key THEN [at |-> now, ttl |-> ttlMs, value |-> value]
                     ELSE lastSet[k]]
    /\ started' = started + 1
    /\ UNCHANGED <<now, ticks, env, mbCache, lastRequestAt, calls, last, mbStarts, lastGet, keyVars, queryVars, gigVars>>

\* getCache(key) on the Ticketmaster cache
TmGet(key) ==
    /\ tmCache' = getCacheMap(tmCache, key, now)
    /\ lastGet' = Some([key |-> key, at |-> now,
                        result |-> getCacheResult(tmCache, key, now),
                        set |-> IF key \in DOMAIN lastSet THEN Some(lastSet[key]) ELSE None])
    /\ started' = started + 1
    /\ UNCHANGED <<now, ticks, env, mbCache, lastRequestAt, calls, last, mbStarts, lastSet, keyVars, queryVars, gigVars>>

\* setCached(key, data) on the MusicBrainz cache: the lifetime is one day
MbSet(key, data) ==
    /\ mbCache' = setCached(mbCache, key, data, now)
    /\ lastSet' = [k \in DOMAIN lastSet \cup {key} |->
                     IF k = key THEN [at |-> now, ttl |-> ONE_DAY_MS, value |-> data]
                     ELSE lastSet[k]]
    /\ started' = started + 1
    /\ UNCHANGED <<now, ticks, env, tmCache, lastRequestAt, calls, last, mbStarts, lastGet, keyVars, queryVars, gigVars>>

\* getCached(key) on the MusicBrainz cache
MbGet(key) ==
    /\ mbCache' = getCachedMap(mbCache, key, now)
    /\ lastGet' = Some([key |-> key, at |-> now,
                        result |-> getCachedResult(mbCache, key, now),
                        set |-> IF key \in DOMAIN lastSet THEN Some(lastSet[key]) ELSE None])
    /\ started' = started + 1
    /\ UNCHANGED <<now, ticks, env, tmCache, lastRequestAt, calls, last, mbStarts, lastSet, keyVars, queryVars, gigVars>>

CacheValues == {JsObject(1), JsZero}
CacheTtls == {0, 1}

InitCache == Idle /\ dbStore = None /\ env = Configured

NextCache ==
    \/ started < MaxCacheOps /\ \E key \in {"tm:1", "tm:2"}, value \in CacheValues, ttlMs \in CacheTtls :
                                    TmSet(key, value, ttlMs)
    \/ started < MaxCacheOps /\ \E key \in {"tm:1", "tm:2"} : TmGet(key)
    \/ started < MaxCacheOps /\ \E data \in CacheValues : MbSet("mb:1", data)
    \/ started < MaxCacheOps /\ MbGet("mb:1")
    \/ ticks < MaxCacheTicks /\ \E d \in {1, ONE_DAY_MS} : Tick(d)

SpecCache == InitCache /\ [][NextCache]_vars

\* C4 (Cache TTL): a get on a key at time `now`, after a set of `value` with `ttl` at
\* time t0 and no later set on that key, returns value when now <= t0 + ttl
\* (boundary included) and absent (null) when now > t0 + ttl.
C4_CacheTtl ==
    \A g \in lastGet :
        \A s \in g.set :
            g.result = IF g.at <= s.at + s.ttl THEN s.value ELSE JsNull

\* a get exactly at the expiry time of a positive lifetime returned the stored value
C4_Witness ==
    \E g \in lastGet :
        \E s \in g.set :
            /\ s.ttl > 0
            /\ g.at = s.at + s.ttl
            /\ g.result = s.value

----------------------------------------------------------------------------
(* SpecKey: the cache keys of two requests of the same operation *)

KeyEnvs ==
    { [apiKey |-> Some(<<"K">>), countryCode |-> None],
      [apiKey |-> Some(<<"K">>), countryCode |-> Some(<<>>)],
      [apiKey |-> Some(<<"K">>), countryCode |-> Some(<<"G", "B">>)],
      [apiKey |-> Some(<<"K">>), countryCode |-> Some(<<"U", "S">>)],
      [apiKey |-> Some(<<"J">>), countryCode |-> None] }

KeySearchInputs ==
    [keyword : {None, Some(<<>>), Some(<<"a">>), Some(<<"a", "&", "c", "i", "t", "y", "=", "b">>)},
     city : {None, Some(<<"b">>)},
     startDateTime : {None},
     endDateTime : {None},
     size : {None, Some(TM_SEARCH_DEFAULT_SIZE), Some(TM_VENUES_DEFAULT_SIZE)}]

KeyEventInputs == [eventId : {<<"e">>, <<"f">>, <<"e", ":", "x">>}]

KeyVenuesInputs ==
    [q : {Some(<<"a">>), Some(<<" ", "a">>), Some(<<"a", " ">>), Some(<<"A">>)},
     city : {None, Some(<<>>), Some(<<"b">>)},
     size : {None, Some(TM_VENUES_DEFAULT_SIZE), Some(TM_SEARCH_DEFAULT_SIZE)}]

KeyMbInputs ==
    [q : {<<"a">>, <<"A">>, <<" ", "a", " ">>, <<"b">>, <<"a", ":", "1">>},
     limit : {None, Some(MB_DEFAULT_LIMIT), Some(0), Some(MB_MIN_LIMIT), Some(2),
              Some(MB_MAX_LIMIT), Some(MB_MAX_LIMIT + 5)}]

KeyRequests ==
    [op : {"searchTmEventsUk"}, env : KeyEnvs, input : KeySearchInputs]
    \cup [op : {"getTmEventByIdUk"}, env : KeyEnvs, input : KeyEventInputs]
    \cup [op : {"searchTmVenuesUk"}, env : KeyEnvs \ {Configured}, input : KeyVenuesInputs]
    \cup [op : {"searchMbArtists"}, env : {Configured}, input : KeyMbInputs]

\* the key each operation builds for its lookup
KeyOf(r) ==
    CASE r.op = "searchTmEventsUk" -> SearchKey(r.env, r.input)
      [] r.op = "getTmEventByIdUk" -> EventKey(r.env, r.input)
      [] r.op = "searchTmVenuesUk" -> VenuesKey(r.env, r.input)
      [] r.op = "searchMbArtists" -> MbKey(r.input)

\* two requests of one operation arrive
Submit(a, b) ==
    /\ reqA = None /\ reqB = None
    /\ a.op = b.op
    /\ reqA' = Some(a) /\ reqB' = Some(b)
    /\ UNCHANGED <<now, ticks, started, proxyVars, kvVars, queryVars, gigVars, keyA, keyB>>

\* each builds its key
DeriveKeys ==
    /\ reqA # None /\ keyA = None
    /\ keyA' = Some(KeyOf(Get(reqA)))
    /\ keyB' = Some(KeyOf(Get(reqB)))
    /\ UNCHANGED <<now, ticks, started, proxyVars, kvVars, queryVars, gigVars, reqA, reqB>>

InitKey == Idle /\ dbStore = None /\ env = Configured

NextKey ==
    \/ reqA = None /\ \E a \in KeyRequests : \E b \in {r \in KeyRequests : r.op = a.op} : Submit(a, b)
    \/ DeriveKeys

SpecKey == InitKey /\ [][NextKey]_vars

\* an optional string that is "" counts as not given
Given(opt) == IF opt = {} \/ Get(opt) = <<>> THEN None ELSE opt

\* The parameters a request puts on its outbound call: omitted optional fields are
\* replaced by their defaults, empty strings count as omitted, q is trimmed and the
\* artist limit is brought into 1..25.
Effective(r) ==
    CASE r.op = "searchTmEventsUk" ->
            [apikey |-> r.env.apiKey, countryCode |-> CountryCode(r.env),
             keyword |-> Given(r.input.keyword), city |-> Given(r.input.city),
             startDateTime |-> Given(r.input.startDateTime),
             endDateTime |-> Given(r.input.endDateTime),
             size |-> OrElse(r.input.size, TM_SEARCH_DEFAULT_SIZE)]
      [] r.op = "getTmEventByIdUk" ->
            [apikey |-> r.env.apiKey, countryCode |-> CountryCode(r.env),
             eventId |-> r.input.eventId]
      [] r.op = "searchTmVenuesUk" ->
            [apikey |-> r.env.apiKey, countryCode |-> CountryCode(r.env),
             keyword |-> Trim(OrElse(r.input.q, <<>>)), city |-> Given(r.input.city),
             size |-> OrElse(r.input.size, TM_VENUES_DEFAULT_SIZE)]
      [] r.op = "searchMbArtists" ->
            [q |-> Trim(r.input.q),
             limit |-> Min(Max(OrElse(r.input.limit, MB_DEFAULT_LIMIT), MB_MIN_LIMIT), MB_MAX_LIMIT)]

\* the same, with the letter case of the artist q ignored
EffectiveIgnoringCase(r) ==
    IF r.op = "searchMbArtists"
    THEN [Effective(r) EXCEPT !.q = ToLowerCase(Effective(r).q)]
    ELSE Effective(r)

\* C10 as stated: requests of one operation get the same key exactly when their
\* effective parameters are identical.
C10_AsStated ==
    (keyA # None /\ keyB # None) =>
        ((keyA = keyB) <=> (Effective(Get(reqA)) = Effective(Get(reqB))))

\* C10 (Cache key determinism): two requests of the same operation with identical
\* effective parameters (defaults substituted, empty strings omitted, q trimmed,
\* artist limit clamped) build the same cache key, and two requests build different
\* keys whenever their effective parameters differ by more than the letter case of
\* an artist-search q.
C10_KeyDeterminism ==
    (keyA # None /\ keyB # None) =>
        /\ (Effective(Get(reqA)) = Effective(Get(reqB))) => (keyA = keyB)
        /\ (keyA = keyB) <=> (EffectiveIgnoringCase(Get(reqA)) = EffectiveIgnoringCase(Get(reqB)))

\* an event search that omits size and one that gives size 20 built the same key
C10_Witness ==
    /\ keyA # None /\ keyB # None
    /\ keyA = keyB
    /\ Get(reqA).op = "searchTmEventsUk"
    /\ Get(reqA).input.size = None
    /\ Get(reqB).input.size = Some(TM_SEARCH_DEFAULT_SIZE)

----------------------------------------------------------------------------
(* The rate limiter under overlapping invocations *)

\* C1 as stated (Rate-limiter spacing): the start times of any two consecutive
\* outbound MusicBrainz calls are at least 1000 ms apart, in every interleaving
\* of cache-missing searchMbArtists invocations.
C1_AsStated ==
    Len(mbStarts) = 2 => mbStarts[2] - mbStarts[1] >= THROTTLE_MS

\* C9 as stated (Ordering guarantee): no later-initiated searchMbArtists invocation
\* starts its outbound call before an earlier-initiated one that entered the
\* throttle before it.
C9_AsStated ==
    \A i, j \in DOMAIN calls :
        (i < j /\ calls[i].op = "searchMbArtists" /\ calls[j].op = "searchMbArtists")
            => ~(calls[i].pc = "sleeping" /\ calls[j].pc = "fetching")

----------------------------------------------------------------------------
(* The cache in front of the events catalog *)

\* C2 as stated (At most one origin call per TTL window): two searchTmEventsUk
\* invocations with identical effective parameters initiated within 30 minutes of
\* each other cause one outbound call, also when the second starts before the
\* first one's response has arrived: never are both waiting for an upstream answer.
C2_AsStated ==
    \A i, j \in DOMAIN calls :
        (/\ i < j
         /\ calls[i].op = "searchTmEventsUk" /\ calls[j].op = "searchTmEventsUk"
         /\ calls[i].key = calls[j].key
         /\ calls[j].startedAt - calls[i].startedAt <= TM_SEARCH_TTL_MS)
            => ~(calls[i].pc = "fetching" /\ calls[j].pc = "fetching")

\* C3 as stated (Cache-hit path): an invocation that finds an unexpired entry for
\* its key returns exactly the stored value and makes no outbound call, whatever
\* the stored value is.
C3_AsStated ==
    \A c \in last :
        c.seen # None => (c.pc = "done" /\ c.result = c.seen)

----------------------------------------------------------------------------
(* Steps of the operations, as the claims speak of them *)

\* this step is a new invocation running up to its return, throw or first await
Invoked == started' = started + 1

\* this step is the continuation of an invocation in flight
Continued == started' = started /\ calls' # calls

\* step Map c to Map d writes nothing, and removes at most the entry under key
\* when that entry has expired
OnlyEvicts(c, d, key) ==
    /\ \A k \in DOMAIN d : k \in DOMAIN c /\ d[k] = c[k]
    /\ \A k \in DOMAIN c \ DOMAIN d : key = Some(k) /\ now > c[k].expiresAt

\* the Map an operation caches in, and the lifetime it gives its entries
CacheOf(op) == IF op = "searchMbArtists" THEN mbCache ELSE tmCache
LifetimeOf(op) == IF op = "searchMbArtists" THEN ONE_DAY_MS ELSE TtlOf(op)

\* C5 as stated (Failure is not cached): an operation whose outbound call failed
\* has left the cache exactly as it was before the operation; in particular it has
\* removed nothing from it.
C5_AsStated ==
    \A c \in last : c.error \in FailureKinds => ~c.evicted

\* C5 (Failure is not cached): when an operation's outbound call returns a
\* non-success status or fails at transport level, the operation raises an error
\* and stores nothing: its lookup removes at most the expired entry under its own
\* key and its failure leaves both caches unchanged; and the next invocation with
\* the same key performs an outbound call (at once or after the throttle sleep)
\* unless it finds an entry stored since the failed invocation began.
C5_FailureNotCached ==
    [][ \A c \in last' :
          /\ (Continued /\ c.error \in FailureKinds) =>
                (c.pc = "failed" /\ tmCache' = tmCache /\ mbCache' = mbCache)
          /\ Invoked =>
                (OnlyEvicts(tmCache, tmCache', c.key) /\ OnlyEvicts(mbCache, mbCache', c.key))
          /\ (Invoked /\ \E f \in last : f.error \in FailureKinds /\ f.op = c.op /\ f.key = c.key) =>
                \/ c.pc \in {"fetching", "sleeping"}
                \/ /\ c.pc = "done"
                   /\ \A f \in last :
                         CacheOf(c.op)[Get(c.key)].expiresAt - LifetimeOf(c.op) >= f.startedAt
      ]_vars

\* an operation failed at transport level after its lookup had removed the expired
\* entry under its key, and the cache holds nothing under that key
C5_Witness ==
    \E c \in last :
        /\ c.error = "transport"
        /\ c.evicted
        /\ Get(c.key) \notin DOMAIN CacheOf(c.op)

\* C6 (Missing credential fails fast): whenever TICKETMASTER_API_KEY is absent or
\* empty, every invocation of searchTmEventsUk, getTmEventByIdUk and
\* searchTmVenuesUk throws the configuration error without a cache lookup (no key
\* is built, no expired entry is removed) and without an outbound call, for every
\* input and every cache content, and leaves the cache unchanged.
C6_MissingCredentialFailsFast ==
    [][ \A c \in last' :
          (Invoked /\ c.op \in TmOps /\ (env.apiKey = {} \/ env.apiKey = Some(<<>>))) =>
              /\ c.pc = "failed" /\ c.error = "config"
              /\ c.key = None
              /\ tmCache' = tmCache
              /\ calls' = calls
      ]_vars

\* an invocation threw the configuration error under an empty key while the cache
\* held an entry
C6_Witness ==
    \E c \in last :
        /\ c.error = "config"
        /\ c.apiKey = Some(<<>>)
        /\ DOMAIN tmCache # {}

\* C7 as stated (Venue search with empty query): every searchTmVenuesUk invocation
\* whose q is empty or only whitespace returns {venues: []}, in every state of the
\* cache and of the environment configuration.
C7_AsStated ==
    \A c \in last :
        (c.op = "searchTmVenuesUk" /\ Trim(OrElse(c.input.q, <<>>)) = <<>>) =>
            (c.pc = "done" /\ c.result = Some([venues |-> <<>>]))

\* C7 (Venue search with empty query): whenever TICKETMASTER_API_KEY is configured
\* (present and non-empty), every searchTmVenuesUk invocation whose q is empty or
\* only whitespace returns {venues: []}, in every state of the cache, performs no
\* outbound call and writes no cache entry.
C7_EmptyVenueQuery ==
    [][ \A c \in last' :
          (/\ Invoked
           /\ c.op = "searchTmVenuesUk"
           /\ Trim(OrElse(c.input.q, <<>>)) = <<>>
           /\ env.apiKey # {} /\ env.apiKey # Some(<<>>)) =>
              /\ c.pc = "done" /\ c.result = Some([venues |-> <<>>])
              /\ tmCache' = tmCache
              /\ calls' = calls
      ]_vars

\* a venue search with a whitespace-only q returned {venues: []} while the cache
\* held an entry
C7_Witness ==
    \E c \in last :
        /\ c.op = "searchTmVenuesUk"
        /\ c.input.q = Some(<<" ">>)
        /\ c.result = Some([venues |-> <<>>])
        /\ DOMAIN tmCache # {}

\* the invocations asleep in the throttle
Sleepers == {i \in DOMAIN calls : calls[i].pc = "sleeping"}

\* C8 (Limiter isolation): no step of an events-catalog operation changes
\* lastRequestAt, starts or ends a throttle sleep, or depends on one (the operation
\* never sleeps, also while an artist search is asleep); and a searchMbArtists
\* invocation served from the cache returns at once without sleeping and without
\* changing lastRequestAt.
C8_LimiterIsolation ==
    [][ \A c \in last' :
          /\ ((Invoked \/ Continued) /\ c.op \in TmOps) =>
                /\ lastRequestAt' = lastRequestAt
                /\ mbStarts' = mbStarts
                /\ c.pc # "sleeping" /\ c.wakeAt = None
                /\ {calls[i] : i \in Sleepers} = {calls'[i] : i \in Sleepers'}
          /\ (Invoked /\ c.op = "searchMbArtists" /\ c.seen # None) =>
                /\ c.pc = "done" /\ c.result = c.seen /\ c.wakeAt = None
                /\ lastRequestAt' = lastRequestAt
                /\ mbStarts' = mbStarts
                /\ calls' = calls
      ]_vars

\* an events-catalog operation began and completed while an artist search was
\* asleep in the throttle
C8_Witness ==
    \E i \in Sleepers :
        \E c \in last :
            /\ c.op \in TmOps
            /\ c.pc = "done"
            /\ c.startedAt >= calls[i].startedAt
            /\ now < Get(calls[i].wakeAt)

----------------------------------------------------------------------------
(* One outbound call per invocation *)

\* the invocations the state holds: those in flight and the one that stepped last
Invocations == {calls[i] : i \in DOMAIN calls} \cup last

\* C11 (No retries): every invocation of a proxy operation makes at most one
\* outbound HTTP call, and when that call fails the same invocation throws the
\* error: it has made exactly one call, it returns no value, and it is over (only
\* sleeping and fetching invocations remain in flight).
C11_NoRetries ==
    /\ \A c \in Invocations :
          /\ c.outbound <= 1
          /\ (c.pc = "fetching") => c.outbound = 1
          /\ (c.error \in FailureKinds) =>
                (c.pc = "failed" /\ c.outbound = 1 /\ c.result = None)
    /\ \A i \in DOMAIN calls : calls[i].pc \in {"sleeping", "fetching"}

\* an artist search slept in the throttle, made its outbound call, got a
\* non-success status and threw
C11_Witness ==
    \E c \in last :
        /\ c.op = "searchMbArtists"
        /\ c.wakeAt # None
        /\ c.error = "status"
        /\ c.outbound = 1

----------------------------------------------------------------------------
(* The cache Map under get and set *)

CacheKeys == {"tm:1", "tm:2", "mb:1"}

\* the step is a get on key, of the cache that holds such keys
GetOn(key) == IF key = "mb:1" THEN MbGet(key) ELSE TmGet(key)

\* both Maps as one (their key spaces are disjoint)
BothMaps(tm, mb) == [k \in DOMAIN tm \cup DOMAIN mb |-> IF k \in DOMAIN tm THEN tm[k] ELSE mb[k]]

\* C12 (Lazy eviction): a get on a key whose entry is expired (now > expiresAt)
\* removes that entry and nothing else, so after the get the key is absent; a get
\* on a fresh or missing key leaves the Map unchanged; and no step removes an
\* entry except such a get on an expired entry.
C12_LazyEviction ==
    [][ LET before == BothMaps(tmCache, mbCache)
            after == BothMaps(tmCache', mbCache')
        IN /\ \A key \in CacheKeys :
                GetOn(key) =>
                    IF key \in DOMAIN before /\ now > before[key].expiresAt
                    THEN /\ key \notin DOMAIN after
                         /\ after = [k \in DOMAIN before \ {key} |-> before[k]]
                    ELSE after = before
           /\ \A k \in DOMAIN before \ DOMAIN after :
                GetOn(k) /\ now > before[k].expiresAt
      ]_vars

\* a get found the entry set on its key expired, and the key is now absent from
\* the Map while the other key of that cache still has its entry
C12_Witness ==
    \E g \in lastGet :
        \E s \in g.set :
            /\ g.at > s.at + s.ttl
            /\ g.result = JsNull
            /\ g.key = "tm:1"
            /\ DOMAIN tmCache = {"tm:2"}

\* the entries of Map c other than the one under key
Others(c, key) == [k \in DOMAIN c \ {key} |-> c[k]]

\* C13 (Cache set overwrites and is local to its key): set(key, value, ttl)
\* replaces any existing entry for key, fresh or stale, with {value, expiresAt =
\* now + ttl}; a get immediately after a set with positive ttl returns the
\* just-stored value; and neither set(key, ...) nor get(key) changes the entry of
\* any other key.
C13_SetOverwritesLocally ==
    [][ /\ \A key \in {"tm:1", "tm:2"}, value \in CacheValues, ttlMs \in CacheTtls :
              TmSet(key, value, ttlMs) =>
                  /\ key \in DOMAIN tmCache'
                  /\ tmCache'[key] = [value |-> value, expiresAt |-> now + ttlMs]
                  /\ Others(tmCache', key) = Others(tmCache, key)
                  /\ mbCache' = mbCache
        /\ \A data \in CacheValues :
              MbSet("mb:1", data) =>
                  /\ "mb:1" \in DOMAIN mbCache'
                  /\ mbCache'["mb:1"] = [data |-> data, expiresAt |-> now + ONE_DAY_MS]
                  /\ tmCache' = tmCache
        /\ \A key \in CacheKeys :
              GetOn(key) =>
                  /\ Others(tmCache', key) = Others(tmCache, key)
                  /\ Others(mbCache', key) = Others(mbCache, key)
        /\ \A g \in lastGet' :
              \A s \in g.set :
                  (g.at = s.at /\ s.ttl > 0) => g.result = s.value
      ]_vars

\* a set has just replaced, by another value, an entry that had expired, and the
\* other key has kept its entry
C13_Witness ==
    \E g \in lastGet :
        \E s \in g.set :
            /\ g.key = "tm:1"
            /\ g.result = s.value
            /\ "tm:1" \in DOMAIN lastSet /\ "tm:1" \in DOMAIN tmCache
            /\ s.at + s.ttl < now
            /\ lastSet["tm:1"].at = now
            /\ tmCache["tm:1"].value # s.value
            /\ tmCache["tm:1"].expiresAt = now + lastSet["tm:1"].ttl

----------------------------------------------------------------------------
(* SpecQuery: buildQuery on its own *)

\* the values a parameter named k is given: undefined, strings, numbers
ParamValues(k) ==
    {PStr(k, None), PStr(k, Some(<<>>)), PStr(k, Some(<<"a">>)), PStr(k, Some(<<" ">>)),
     PStr(k, Some(<<"a", "&", "s", "i", "z", "e", "=", "1">>)), PNum(k, 0), PNum(k, 20)}

\* parameter records with the entries apikey, keyword, size, in that order
ParamRecords ==
    {<<a, b, c>> : a \in ParamValues("apikey"), b \in ParamValues("keyword"),
                   c \in ParamValues("size")}

\* buildQuery(ps) is called and returns
BuildQuery(ps) ==
    /\ queryParams' = ps
    /\ queryString' = Some(buildQuery(ps))
    /\ UNCHANGED <<now, ticks, started, proxyVars, kvVars, keyVars, gigVars>>

InitQuery == Idle /\ dbStore = None /\ env = Configured

NextQuery == \E ps \in ParamRecords : BuildQuery(ps)

SpecQuery == InitQuery /\ [][NextQuery]_vars

\* the position of the first character ch in string s from position i on, or 0
RECURSIVE IndexFrom(_, _, _)
IndexFrom(s, ch, i) ==
    IF i > Len(s) THEN 0
    ELSE IF SubSeq(s, i, i) = ch THEN i
    ELSE IndexFrom(s, ch, i + 1)

\* the pieces of a query string between its & separators
RECURSIVE Pieces(_)
Pieces(s) ==
    IF s = "" THEN <<>>
    ELSE LET i == IndexFrom(s, "&", 1) IN
         IF i = 0 THEN <<s>>
         ELSE <<SubSeq(s, 1, i - 1)>> \o Pieces(SubSeq(s, i + 1, Len(s)))

\* a piece name=value read back: what precedes its first = and what follows it
PieceName(piece) ==
    LET i == IndexFrom(piece, "=", 1) IN
    IF i = 0 THEN piece ELSE SubSeq(piece, 1, i - 1)
PieceValue(piece) ==
    LET i == IndexFrom(piece, "=", 1) IN
    IF i = 0 THEN "" ELSE SubSeq(piece, i + 1, Len(piece))

\* C14 (Parameter omission): for every parameter record passed to buildQuery, a
\* parameter whose value is undefined or the empty string does not appear in the
\* resulting query string, neither as a key nor as an empty-value pair, and every
\* other parameter appears exactly once (with its value, and nothing else appears).
C14_ParameterOmission ==
    \A q \in queryString :
        LET pieces == Pieces(q)
            kept == {i \in DOMAIN queryParams :
                        ~(queryParams[i].kind = "undefined"
                          \/ (queryParams[i].kind = "string" /\ queryParams[i].s = <<>>))}
        IN /\ \A i \in DOMAIN queryParams :
                LET named == {j \in DOMAIN pieces : PieceName(pieces[j]) = queryParams[i].k} IN
                IF i \in kept
                THEN /\ Cardinality(named) = 1
                     /\ \A j \in named :
                           PieceValue(pieces[j]) =
                               IF queryParams[i].kind = "number" THEN NumStr(queryParams[i].n)
                               ELSE UrlEncode(queryParams[i].s)
                ELSE named = {}
           /\ \A j \in DOMAIN pieces : PieceValue(pieces[j]) # ""
           /\ Len(pieces) = Cardinality(kept)

\* buildQuery was handed an undefined apikey, an empty keyword and size 0, and
\* returned size=0
C14_Witness ==
    /\ Len(queryParams) = 3
    /\ queryParams[1].kind = "undefined"
    /\ queryParams[2].kind = "string" /\ queryParams[2].s = <<>>
    /\ queryParams[3].kind = "number" /\ queryParams[3].n = 0
    /\ queryString = Some("size=0")

----------------------------------------------------------------------------
(* The artist search result *)

\* C15 (Artist search normalization): on a successful upstream response,
\* searchMbArtists returns {count, artists} where artists has one element per
\* upstream artist record, in upstream order, each element carrying only the
\* fields id, name, country, disambiguation and score with the upstream values,
\* and count equals the length of artists (0 and an empty list when the upstream
\* body has no artists field).
C15_ArtistNormalization ==
    [][ \A i \in DOMAIN calls, data \in MbBodies :
          MbRespondOk(i, data) =>
              LET upstream == IF data.artists = {} THEN <<>> ELSE Get(data.artists) IN
              \A c \in last' :
                  /\ c.pc = "done"
                  /\ \E r \in c.result :
                        /\ DOMAIN r = {"count", "artists"}
                        /\ r.count = Len(r.artists)
                        /\ Len(r.artists) = Len(upstream)
                        /\ \A j \in DOMAIN upstream :
                              /\ DOMAIN r.artists[j] =
                                    {"id", "name", "country", "disambiguation", "score"}
                              /\ r.artists[j].id = upstream[j].id
                              /\ r.artists[j].name = upstream[j].name
                              /\ r.artists[j].country = upstream[j].country
                              /\ r.artists[j].disambiguation = upstream[j].disambiguation
                              /\ r.artists[j].score = upstream[j].score
      ]_vars

\* an artist search returned two artists after its outbound call, in the
\* upstream order
C15_Witness ==
    \E c \in last :
        /\ c.op = "searchMbArtists" /\ c.pc = "done" /\ c.outbound = 1
        /\ \E r \in c.result :
              /\ r.count = 2
              /\ r.artists[1].id = OtherRawArtist.id
              /\ r.artists[2].id = RawArtist.id

----------------------------------------------------------------------------
(* One throttle call *)

\* C18 (Throttle step): a call to throttleOneReqPerSec that starts at time t with
\* elapsed = t - lastRequestAt suspends, with a timer of 1000 - elapsed ms, when
\* elapsed < 1000 and does not suspend otherwise; it returns no earlier than the
\* timer is due and sets lastRequestAt to the time at which it returns; and a
\* call that started no earlier than the previous return (no overlap) returns at
\* least 1000 ms after that return.
C18_ThrottleStep ==
    [][ /\ \A c \in last' :
              (Invoked /\ c.op = "searchMbArtists" /\ c.seen = None) =>
                  LET elapsed == now - lastRequestAt IN
                  IF elapsed < THROTTLE_MS
                  THEN /\ c.pc = "sleeping"
                       /\ c.wakeAt = Some(now + (THROTTLE_MS - elapsed))
                       /\ lastRequestAt' = lastRequestAt
                  ELSE /\ c.pc = "fetching" /\ c.wakeAt = None
                       /\ lastRequestAt' = now
        /\ \A i \in DOMAIN calls :
              MbWake(i) =>
                  /\ now >= Get(calls[i].wakeAt)
                  /\ lastRequestAt' = now
        /\ \A c \in last' :
              (/\ lastRequestAt' # lastRequestAt \/ mbStarts' # mbStarts
               /\ c.op = "searchMbArtists" /\ c.pc = "fetching"
               /\ c.startedAt >= lastRequestAt) =>
                  now - lastRequestAt >= THROTTLE_MS
      ]_vars

\* a throttle call that started 500 ms after the previous return slept 500 ms
\* and returned 1000 ms after that return
C18_Witness ==
    \E c \in last :
        /\ c.op = "searchMbArtists" /\ c.pc = "fetching"
        /\ c.wakeAt = Some(c.startedAt + THROTTLE_MS \div 2)
        /\ Len(mbStarts) = 2
        /\ mbStarts[2] - mbStarts[1] = THROTTLE_MS
        /\ lastRequestAt = mbStarts[2]

----------------------------------------------------------------------------
(* SpecGigs: the gig handlers and the startup load, interleaved *)

\* a body that passes validation; its strings carry surrounding spaces
BaseBody ==
    [ artist |-> JsString(Chars(" a ")), venue |-> JsString(Chars("v")),
      city |-> JsString(Chars("c ")), date |-> JsString(Chars(" 2024-02-29 ")),
      rating |-> JsUndefined, notes |-> JsUndefined, artistMbid |-> JsUndefined,
      externalSource |-> JsUndefined, externalId |-> JsUndefined ]

\* a body that passes validation and carries every optional field
FullBody ==
    [ BaseBody EXCEPT !.rating = JsNumber(5), !.notes = JsString(Chars(" n ")),
                      !.artistMbid = JsString(Chars(" 0383dadf-2A4E-4d10-a46a-e9e041da8eb3 ")),
                      !.externalSource = JsString(Chars(" tm ")),
                      !.externalId = JsString(Chars("e1 ")) ]

GigBodies ==
    { BaseBody, FullBody,
      [BaseBody EXCEPT !.artist = JsString(Chars(" "))],
      [FullBody EXCEPT !.artist = JsString(Chars(" "))] }

NoChange ==
    [ artist |-> JsUndefined, venue |-> JsUndefined, city |-> JsUndefined,
      date |-> JsUndefined, rating |-> JsUndefined, notes |-> JsUndefined,
      id |-> JsUndefined, artistMbid |-> JsUndefined,
      externalSource |-> JsUndefined, externalId |-> JsUndefined ]

PatchBodies ==
    { [NoChange EXCEPT !.artist = JsString(Chars(" b ")), !.notes = JsString(Chars(" ")),
                       !.id = JsString(Chars("9")),
                       !.artistMbid = JsString(Chars("6a4e4d10-0383-4d10-a46a-e9e041da8eb3")),
                       !.externalSource = JsString(Chars("sk")),
                       !.externalId = JsString(Chars("e9"))],
      [NoChange EXCEPT !.rating = JsNull, !.date = JsString(Chars(" 2024-02-30 "))],
      [NoChange EXCEPT !.date = JsString(Chars("2024-2-29"))],
      [NoChange EXCEPT !.rating = JsNumber(6)] }

\* ids a request can name: a seed gig, the first gig posted, no gig
RequestIds == {"1", FreshId(1), "0"}

\* what the store holds when the server starts: nothing, an empty list, or the
\* list an earlier run saved
StartStores == {None, Some(<<>>), Some(EarlierGigs)}

InitGigs == Idle /\ env = Configured /\ dbStore \in StartStores

NextGigs ==
    \/ gigReqs < MaxGigReqs /\ \E gigInput \in GigBodies : PostGigs(gigInput)
    \/ gigReqs < MaxGigReqs /\ \E id \in RequestIds, body \in PatchBodies : PatchGig(id, body)
    \/ gigReqs < MaxGigReqs /\ \E id \in RequestIds : DeleteGig(id)
    \/ \E i \in DOMAIN handlers, ok \in BOOLEAN : PostGigsSaved(i, ok)
    \/ \E i \in DOMAIN handlers, ok \in BOOLEAN : PatchGigSaved(i, ok)
    \/ \E i \in DOMAIN handlers, ok \in BOOLEAN : DeleteGigSaved(i, ok)
    \/ LoadGet
    \/ LoadGetFailed
    \/ loadGigsFromDB
    \/ \E ok \in BOOLEAN : LoadSeeded(ok)

SpecGigs == InitGigs /\ [][NextGigs]_vars

----------------------------------------------------------------------------
(* SpecPost: POST /gigs over the bodies its validation tells apart *)

\* one field of BaseBody replaced
BodyVariations ==
    { <<"artist", JsUndefined>>, <<"artist", JsNull>>, <<"artist", JsNumber(1)>>,
      <<"artist", JsString(<<>>)>>, <<"artist", JsString(Chars("  "))>>,
      <<"venue", JsUndefined>>, <<"venue", JsString(Chars(" "))>>,
      <<"city", JsFalse>>, <<"city", JsString(<<>>)>>,
      <<"date", JsUndefined>>, <<"date", JsNumber(20240229)>>, <<"date", JsString(Chars(" "))>>,
      <<"date", JsString(Chars("2024-2-29"))>>, <<"date", JsString(Chars("20240229"))>>,
      <<"date", JsString(Chars("2024/02/29"))>>, <<"date", JsString(Chars("2024-02-29x"))>>,
      <<"date", JsString(Chars("2024-13-01"))>>, <<"date", JsString(Chars("2024-00-10"))>>,
      <<"date", JsString(Chars("2024-01-00"))>>, <<"date", JsString(Chars("2024-01-32"))>>,
      <<"date", JsString(Chars("2023-02-29"))>>, <<"date", JsString(Chars("2024-02-30"))>>,
      <<"date", JsString(Chars("2024-04-31"))>>, <<"date", JsString(Chars("1900-02-29"))>>,
      <<"date", JsString(Chars("2000-02-29"))>>, <<"date", JsString(Chars("2024-12-31"))>>,
      <<"rating", JsNull>>, <<"rating", JsNumber(1)>>, <<"rating", JsNumber(5)>>,
      <<"rating", JsNumber(0)>>, <<"rating", JsNumber(6)>>, <<"rating", JsInfinity>>,
      <<"rating", JsString(Chars("5"))>>,
      <<"notes", JsNull>>, <<"notes", JsString(<<>>)>>, <<"notes", JsString(Chars(" n "))>>,
      <<"notes", JsNumber(7)>>, <<"notes", JsFalse>>,
      <<"artistMbid", JsString(Chars(" "))>>, <<"artistMbid", JsString(Chars("xyz"))>>,
      <<"artistMbid", JsNumber(3)>>,
      <<"externalSource", JsString(Chars("tm"))>>, <<"externalId", JsString(Chars("e1"))>> }

PostBodies ==
    {BaseBody, FullBody}
    \cup {[BaseBody EXCEPT ![v[1]] = v[2]] : v \in BodyVariations}
    \cup {[BaseBody EXCEPT !.artist = JsUndefined, !.date = JsString(Chars("2024-2-29")),
                           !.rating = JsNumber(6), !.notes = JsNumber(7)]}

InitPost == Idle /\ env = Configured /\ dbStore \in StartStores

NextPost ==
    \/ gigReqs < MaxPostReqs /\ \E gigInput \in PostBodies : PostGigs(gigInput)
    \/ \E i \in DOMAIN handlers, ok \in BOOLEAN : PostGigsSaved(i, ok)
    \/ LoadGet
    \/ loadGigsFromDB
    \/ \E ok \in BOOLEAN : LoadSeeded(ok)

SpecPost == InitPost /\ [][NextPost]_vars

----------------------------------------------------------------------------
(* Claims about the gig handlers *)

\* a string that names a day of the calendar as YYYY-MM-DD
IsCalendarDate(s) ==
    /\ dateRegex(s)
    /\ NumberOf(SubSeq(s, 6, 7)) \in 1..12
    /\ NumberOf(SubSeq(s, 9, 10)) \in
           1..DaysInMonth(NumberOf(SubSeq(s, 1, 4)), NumberOf(SubSeq(s, 6, 7)))

Provided(v) == v # JsUndefined /\ v # JsNull

BadRequired(v) == ~(v.json = "string" /\ Trim(v.s) # <<>>)
BadDate(v) == ~(v.json = "string" /\ IsCalendarDate(Trim(v.s)))
BadRating(v) == Provided(v) /\ ~(v.json = "number" /\ v.n >= 1 /\ v.n <= 5)
BadNotes(v) == Provided(v) /\ v.json # "string"

Lists(message, details) == \E k \in DOMAIN details : details[k] = message

\* C16 (POST /gigs validation): a POST /gigs whose artist, venue or city is not
\* a non-empty string after trimming, whose date is not (after trimming) a
\* YYYY-MM-DD valid calendar date, whose rating is provided (neither absent nor
\* null) and is not a finite number between 1 and 5, or whose notes is provided
\* and is not a string, is answered with status 400 and a list of error details
\* that has an entry for each such field, and it changes neither the in-memory
\* list nor the persisted list, and issues no save.
C16_PostValidation ==
    [][ \A b \in PostBodies :
          ( /\ PostGigs(b)
            /\ \/ BadRequired(b.artist) \/ BadRequired(b.venue) \/ BadRequired(b.city)
               \/ BadDate(b.date) \/ BadRating(b.rating) \/ BadNotes(b.notes) )
          => /\ resp' # None
             /\ Get(resp').op = "POST /gigs"
             /\ Get(resp').status = 400
             /\ Get(resp').body.error = "Validation failed"
             /\ LET details == Get(resp').body.details IN
                /\ BadRequired(b.artist) => Lists("artist must be a non-empty string", details)
                /\ BadRequired(b.venue) => Lists("venue must be a non-empty string", details)
                /\ BadRequired(b.city) => Lists("city must be a non-empty string", details)
                /\ BadDate(b.date) =>
                       \E k \in DOMAIN details :
                           details[k] \in { "date must be a non-empty string",
                                            "date must be in YYYY-MM-DD format",
                                            "date must be a valid date",
                                            "date must be a valid calendar date" }
                /\ BadRating(b.rating) => Lists("rating must be a number between 1 and 5", details)
                /\ BadNotes(b.notes) => Lists("notes must be a string", details)
             /\ gigs' = gigs
             /\ dbStore' = dbStore
             /\ handlers' = handlers
      ]_vars

\* a POST /gigs with a well-formed date that is no day of the calendar
\* (2023-02-29) was answered 400 and left the seed list and the empty store
C16_Witness ==
    /\ resp = Some(Response("POST /gigs", 400,
                            [error |-> "Validation failed",
                             details |-> <<"date must be a valid calendar date">>]))
    /\ gigReqs = 1
    /\ gigs = SeedGigs
    /\ dbStore = None
    /\ handlers = <<>>

StringFields ==
    {"artist", "venue", "city", "date", "notes", "externalSource", "externalId", "artistMbid"}

\* a value that, when it is a string, neither starts nor ends with whitespace
NoOuterSpace(v) ==
    (v.json = "string" /\ v.s # <<>>) => (v.s[1] # " " /\ v.s[Len(v.s)] # " ")

\* C17 (Trimmed storage): after any sequence of POST /gigs, PATCH /gigs/:id and
\* DELETE /gigs/:id requests on the seed data (or on a list an earlier run
\* saved), every string field (artist, venue, city, date, notes, externalSource,
\* externalId, artistMbid) of every gig in the in-memory list has no leading or
\* trailing whitespace.
C17_TrimmedStorage ==
    \A i \in DOMAIN gigs : \A f \in StringFields : NoOuterSpace(gigs[i][f])

\* a gig posted with every string padded, then patched with a padded artist and
\* blank notes, is in the list next to the seed gigs
C17_Witness ==
    /\ Len(gigs) = 3
    /\ gigs[1] = SeedGigs[1]
    /\ gigs[3].id = FreshId(1)
    /\ gigs[3].artist = JsString(<<"b">>)
    /\ gigs[3].city = JsString(<<"c">>)
    /\ gigs[3].date = JsString(Chars("2024-02-29"))
    /\ gigs[3].notes = JsString(<<>>)
    /\ gigs[3].externalSource = JsString(Chars("tm"))
    /\ gigs[3].externalId = JsString(Chars("e1"))
    /\ gigs[3].artistMbid = JsString(Chars("0383dadf-2A4E-4d10-a46a-e9e041da8eb3"))

\* a request arrives and its handler runs up to its await or its early return
Arrived == gigReqs' = gigReqs + 1

\* handler i's db.set settles and the handler runs to its end
SaveSettled(i, ok) == PostGigsSaved(i, ok) \/ PatchGigSaved(i, ok) \/ DeleteGigSaved(i, ok)

\* C19 (Best-effort save): a request that mutates the list issues exactly one
\* save, of the full list as the mutation left it, and a request that is
\* refused issues none and mutates nothing; a success status (201 or 200) is
\* sent only when that one save has settled; and when the save fails the
\* handler still sends its success status, issues no further save, keeps the
\* in-memory list as it is and leaves the store as it was.
C19_BestEffortSave ==
    [][ /\ Arrived =>
              \/ /\ Len(handlers') = Len(handlers) + 1
                 /\ SubSeq(handlers', 1, Len(handlers)) = handlers
                 /\ handlers'[Len(handlers')].saving = gigs'
                 /\ handlers'[Len(handlers')].status \in {200, 201}
                 /\ resp' = resp
              \/ /\ handlers' = handlers
                 /\ gigs' = gigs
                 /\ Get(resp').status \in {400, 404, 409}
        /\ (gigs' # gigs /\ ~Arrived) => (loader.pc = "got" /\ loader'.pc = "done")
        /\ (resp' # resp /\ Get(resp').status \in {200, 201}) =>
              \E i \in DOMAIN handlers, ok \in BOOLEAN : SaveSettled(i, ok)
        /\ \A i \in DOMAIN handlers :
              /\ SaveSettled(i, TRUE) => dbStore' = Some(handlers[i].saving)
              /\ SaveSettled(i, FALSE) =>
                    /\ Get(resp').status = (IF handlers[i].op = "POST /gigs" THEN 201 ELSE 200)
                    /\ Get(resp').body = handlers[i].body
                    /\ gigs' = gigs
                    /\ dbStore' = dbStore
                    /\ Len(handlers') = Len(handlers) - 1
      ]_vars

\* a POST /gigs was answered 201 although its save failed (the store was never
\* written), and its gig is in the list
C19_Witness ==
    /\ resp # None
    /\ Get(resp).op = "POST /gigs" /\ Get(resp).status = 201
    /\ dbStore = None /\ loader.pc = "getting"
    /\ handlers = <<>>
    /\ gigs = Append(SeedGigs, Get(resp).body)

\* the ids of the gigs in the in-memory list
GigIds == {gigs[i].id : i \in DOMAIN gigs}

\* C20 (No acknowledged gig is lost), as stated: once POST /gigs has answered
\* 201 for a gig, the gig is in the in-memory list in every later state until a
\* DELETE /gigs/:id for its id has removed it, under every interleaving of the
\* request handlers with loadGigsFromDB.  It does not hold: when the store
\* holds a non-empty list, loadGigsFromDB resumes from db.get by emptying the
\* in-memory list and refilling it from the stored list, which drops a gig that
\* was posted while db.get was in flight.
C20_AsStated == \A id \in acked : id \in GigIds \/ id \in removed

\* the gig carries an external association
HasPair(g) == g.externalSource # JsUndefined /\ g.externalId # JsUndefined

\* no two gigs of the list carry the same (externalSource, externalId) pair
NoDuplicatePairs(list) ==
    \A i, j \in DOMAIN list :
        (/\ i # j /\ HasPair(list[i])
         /\ list[i].externalSource = list[j].externalSource
         /\ list[i].externalId = list[j].externalId) => FALSE

\* the gigs of the list that carry the pair the body names, once trimmed
Matching(list, b) ==
    {i \in DOMAIN list :
        /\ HasPair(list[i])
        /\ list[i].externalSource = TrimmedOrUndefined(b.externalSource)
        /\ list[i].externalId = TrimmedOrUndefined(b.externalId)}

\* the answer of POST /gigs to a body whose pair a gig of the list carries
RefusedAsDuplicate(b) ==
    /\ resp' = Some(Response("POST /gigs", 409,
                             [message |-> "You've already logged this gig.",
                              existingGigId |-> gigs[CHOOSE i \in Matching(gigs, b) : TRUE].id]))
    /\ gigs' = gigs
    /\ handlers' = handlers

\* C21 (External-import dedupe), as stated: no two gigs in the list carry the
\* same (externalSource, externalId) pair, and every POST /gigs whose pair
\* matches an existing gig is answered 409 with that gig's id and leaves the
\* list unchanged.  It does not hold for a body that also fails validation.
C21_AsStated ==
    [][ /\ NoDuplicatePairs(gigs) /\ NoDuplicatePairs(gigs')
        /\ \A b \in GigBodies :
              (PostGigs(b) /\ Matching(gigs, b) # {}) => RefusedAsDuplicate(b)
      ]_vars

\* C21 (External-import dedupe), amended: no two gigs in the list carry the same
\* (externalSource, externalId) pair, in every interleaving of POST, PATCH and
\* DELETE with the startup load; a POST /gigs that passes validation and whose
\* pair matches an existing gig is answered 409 with that gig's id and leaves
\* the list unchanged; one that fails validation is answered 400 and leaves the
\* list unchanged as well.
C21_Dedupe ==
    [][ /\ NoDuplicatePairs(gigs) /\ NoDuplicatePairs(gigs')
        /\ \A b \in GigBodies :
              (PostGigs(b) /\ Matching(gigs, b) # {}) =>
                  IF CreateErrors(b) = <<>>
                  THEN RefusedAsDuplicate(b)
                  ELSE /\ Get(resp').status = 400
                       /\ gigs' = gigs
                       /\ handlers' = handlers
      ]_vars

\* the same association was posted twice: the second POST was answered 409
\* with the id of the gig the first one made, which is in the list once
C21_Witness ==
    /\ resp = Some(Response("POST /gigs", 409,
                            [message |-> "You've already logged this gig.",
                             existingGigId |-> FreshId(1)]))
    /\ gigReqs = 2
    /\ Len(gigs) = 3
    /\ gigs[3].id = FreshId(1)
    /\ gigs[3].externalSource = JsString(Chars("tm"))
    /\ gigs[3].externalId = JsString(Chars("e1"))

\* a gig that satisfies the rules POST /gigs validates
ValidGig(g) ==
    /\ ~BadRequired(g.artist) /\ ~BadRequired(g.venue) /\ ~BadRequired(g.city)
    /\ ~BadDate(g.date)
    /\ ~BadRating(g.rating)

\* C22 (Stored-gig validity), as stated: after any sequence of POST /gigs and
\* PATCH /gigs/:id requests, every gig in the list has a non-empty artist, venue
\* and city, a date that is a YYYY-MM-DD valid calendar date, and a rating that
\* is absent or a finite number between 1 and 5.  It does not hold: PATCH
\* /gigs/:id checks the format of the date only and stores 2024-02-30.
C22_AsStated == \A i \in DOMAIN gigs : ValidGig(gigs[i])

\* the positions of the list that hold the gig with this id
PositionsOf(list, id) == {i \in DOMAIN list : list[i].id = id}

\* C23 (PATCH frame): a PATCH /gigs/:id for an id in the list keeps the length
\* of the list, every other gig, and the id, externalSource, externalId and
\* artistMbid of the gig at that id's position, whatever the body contains (so
\* it changes at most that gig's artist, venue, city, date, rating and notes);
\* a PATCH that is refused (400) issues no save and leaves the whole list
\* unchanged.
C23_PatchFrame ==
    [][ \A id \in RequestIds, body \in PatchBodies :
          (PatchGig(id, body) /\ PositionsOf(gigs, id) # {}) =>
              /\ Len(gigs') = Len(gigs)
              /\ \A i \in DOMAIN gigs :
                    IF i \in PositionsOf(gigs, id)
                    THEN /\ gigs'[i].id = gigs[i].id
                         /\ gigs'[i].externalSource = gigs[i].externalSource
                         /\ gigs'[i].externalId = gigs[i].externalId
                         /\ gigs'[i].artistMbid = gigs[i].artistMbid
                    ELSE gigs'[i] = gigs[i]
              /\ IF handlers' = handlers
                 THEN /\ Get(resp').status = 400
                      /\ gigs' = gigs
                 ELSE /\ handlers' = Append(handlers, handlers'[Len(handlers')])
                      /\ handlers'[Len(handlers')].status = 200
                      /\ handlers'[Len(handlers')].body \in {gigs'[i] : i \in PositionsOf(gigs, id)}
      ]_vars

\* seed gig 1 was patched by a body that also names an id, an artistMbid and an
\* association: the answer is 200 with the gig, which has the new artist and
\* notes and its own id, no association and no artistMbid, in first position
C23_Witness ==
    /\ resp # None
    /\ Get(resp).op = "PATCH /gigs/:id" /\ Get(resp).status = 200
    /\ Get(resp).body = [SeedGigs[1] EXCEPT !.artist = JsString(<<"b">>),
                                            !.notes = JsString(<<>>)]
    /\ gigs = <<Get(resp).body, SeedGigs[2]>>

\* the list without the gigs that have this id, the others in their order
Without(list, id) ==
    LET Other(g) == g.id # id IN SelectSeq(list, Other)

\* DELETE /gigs/:id for an id in the list removes that gig alone, and PATCH or
\* DELETE for an id not in the list answers 404, changes nothing and saves
\* nothing
DeleteFrame ==
    /\ \A id \in RequestIds :
          (DeleteGig(id) /\ PositionsOf(gigs, id) # {}) =>
              /\ Cardinality(PositionsOf(gigs, id)) = 1
              /\ gigs' = Without(gigs, id)
              /\ Len(gigs') = Len(gigs) - 1
              /\ handlers' = Append(handlers, handlers'[Len(handlers')])
              /\ handlers'[Len(handlers')].saving = gigs'
    /\ \A id \in RequestIds :
          (/\ DeleteGig(id) \/ \E body \in PatchBodies : PatchGig(id, body)
           /\ PositionsOf(gigs, id) = {}) =>
              /\ Get(resp').status = 404
              /\ gigs' = gigs
              /\ handlers' = handlers
              /\ dbStore' = dbStore

\* C24 (DELETE and unknown ids), as stated: DELETE /gigs/:id for an id in the
\* list removes exactly that gig and keeps the others in their order; PATCH or
\* DELETE for an id not in the list answers 404, leaves the list unchanged and
\* issues no save; and a DELETE of an id that an earlier DELETE removed answers
\* 404.  The last part does not hold: loadGigsFromDB can put a removed gig
\* back into the list.
C24_AsStated ==
    [][ /\ DeleteFrame
        /\ \A id \in removed :
              DeleteGig(id) => (handlers' = handlers /\ resp' # None /\ Get(resp').status = 404)
      ]_vars

\* C24, the part that holds in every interleaving: the effect of one DELETE and
\* the 404 for an id that is not in the list.
C24_DeleteFrame == [][DeleteFrame]_vars

----------------------------------------------------------------------------
(* SpecArtist: artist searches that differ in case, whitespace and limit *)

\* two requests that share the key mb:artist:a:8 and two that share mb:artist:a:25
ArtistInputs ==
    { [q |-> <<"a">>, limit |-> None],
      [q |-> <<" ", "A">>, limit |-> Some(MB_DEFAULT_LIMIT)],
      [q |-> <<"A", " ">>, limit |-> Some(MB_MAX_LIMIT)],
      [q |-> <<"a">>, limit |-> Some(MB_MAX_LIMIT + 5)] }

InitArtist == Idle /\ dbStore = None /\ env = Configured

NextArtist ==
    \/ started < MaxArtistCalls /\ \E input \in ArtistInputs : searchMbArtists(input)
    \/ \E i \in DOMAIN calls : MbWake(i)
    \/ \E i \in DOMAIN calls, data \in MbBodies : MbRespondOk(i, data)
    \/ ticks < MaxArtistTicks /\ \E d \in {1, ONE_DAY_MS} : Tick(d)

SpecArtist == InitArtist /\ [][NextArtist]_vars

\* the two requests differ at most in the letter case and the surrounding
\* whitespace of q, and their limits clamp to the same value
SameArtistSearch(a, b) ==
    /\ ToLowerCase(Trim(a.q)) = ToLowerCase(Trim(b.q))
    /\ Min(Max(OrElse(a.limit, 8), 1), 25) = Min(Max(OrElse(b.limit, 8), 1), 25)

\* C25 (Artist cache key normalization): when the latest invocation to take a
\* step is a searchMbArtists request that fetched and returned its payload, a
\* searchMbArtists request made no later than 24 hours after that return,
\* whose q differs from the first one's at most in letter case and surrounding
\* whitespace and whose limit clamps to the same value in [1, 25] (default 8),
\* returns the first request's payload at once: it does not sleep, makes no
\* outbound call and leaves lastRequestAt as it is.
C25_SharedCacheEntry ==
    [][ \A first \in last, input \in ArtistInputs :
          ( /\ first.op = "searchMbArtists" /\ first.pc = "done" /\ first.outbound = 1
            /\ SameArtistSearch(first.input, input)
            /\ now <= Get(first.doneAt) + ONE_DAY_MS
            /\ searchMbArtists(input) )
          => \A second \in last' :
                /\ second.input = input
                /\ second.pc = "done"
                /\ second.result = first.result
                /\ second.outbound = 0
                /\ second.wakeAt = None
                /\ lastRequestAt' = lastRequestAt
                /\ mbStarts' = mbStarts
                /\ calls' = calls
      ]_vars

\* exactly 24 hours after the one outbound call of the behaviour returned, the
\* request " A" with limit 8 returned the cached payload without an outbound call
C25_Witness ==
    \E second \in last :
        /\ second.input = [q |-> <<" ", "A">>, limit |-> Some(MB_DEFAULT_LIMIT)]
        /\ second.pc = "done" /\ second.outbound = 0 /\ second.wakeAt = None
        /\ second.seen = second.result /\ second.result # None
        /\ started = 2 /\ calls = <<>>
        /\ Len(mbStarts) = 1
        /\ now = mbStarts[1] + ONE_DAY_MS
        /\ second.startedAt = now

====
